---- MODULE Spec2Model ----
(***************************************************************************)
(* DeprecCheck AI: the fix engine of App.tsx (single fix, bulk fix and the *)
(* re-analysis they start) and the rule scanner and scorer of              *)
(* ShadowModeEmulator.tsx.                                                 *)
(*                                                                         *)
(* A JavaScript string is a string, read character by character with Len, *)
(* SubSeq and \o, so that includes, split, join, replace, trim and the     *)
(* regular expressions are computed as the engine computes them.  A        *)
(* nullable value is an option: <<>> for null and <<v>> for the value v.   *)
(***************************************************************************)
EXTENDS Integers, Sequences, FiniteSets, TLC

VARIABLES
    code,             \* App: editor text
    report,           \* App: option of AnalysisReport
    loading,          \* App: loading flag
    error,            \* App: error message, "" for null
    previewIssue,     \* App: option of Issue
    prStatus,         \* App: 'idle' | 'checking' | 'blocked' | 'passed'
    fixReview,        \* App: option of FixReviewState
    highlightedText,  \* App: option of string
    highlightColor,   \* App: 'red' | 'green'
    activeTab,        \* App: 'scanner' | 'pr-interceptor' | 'debugger'
    pending,          \* analyzeCode calls awaited by handleAnalyze, oldest first
    track,            \* which request the report came from, and the PR override
    last,             \* what the most recent fix handler did (its locals and alert)
    emuCode,          \* ShadowModeEmulator: code
    activeProfileId,  \* ShadowModeEmulator: activeProfileId (index into EMULATOR_PROFILES)
    simulationResult, \* ShadowModeEmulator: option of EmulationResult
    isBooting,        \* ShadowModeEmulator: isBooting
    bootTimers,       \* setTimeout callbacks of handleStartSimulation not yet run
    lastIndex,        \* lastIndex of each rule's RegExp object, per profile and rule
    scanned,          \* the code and profile the simulationResult was computed from
    svc,              \* geminiService: the analyzeCode call in progress
    view,             \* App: option of the results section as last rendered
    editor            \* CodeEditor: its props and the backdrop as last rendered

appVars == <<code, report, loading, error, previewIssue, prStatus, fixReview,
             highlightedText, highlightColor, activeTab, pending, track, last>>
emuVars == <<emuCode, activeProfileId, simulationResult, isBooting, bootTimers, lastIndex,
             scanned>>
otherVars == <<svc, view, editor>>
vars == <<code, report, loading, error, previewIssue, prStatus, fixReview,
          highlightedText, highlightColor, activeTab, pending, track, last,
          emuCode, activeProfileId, simulationResult, isBooting, bootTimers, lastIndex,
          scanned, svc, view, editor>>

----------------------------------------------------------------------------
(* Bounds of the model *)

MaxCodeLen == 2
MaxIssues == 2
MaxPending == 2
MaxFixes == 1
MaxFrags == 2
MaxShuffle == 5

----------------------------------------------------------------------------
(* Options and small helpers *)

None == <<>>
Some(v) == <<v>>

Min(S) == CHOOSE x \in S : \A y \in S : x <= y

RECURSIVE Concat(_)
\* the strings of the sequence ss, one after the other
Concat(ss) == IF ss = <<>> THEN "" ELSE Head(ss) \o Concat(Tail(ss))

RECURSIVE SumSeq(_)
SumSeq(ns) == IF ns = <<>> THEN 0 ELSE Head(ns) + SumSeq(Tail(ns))

RECURSIVE StringsUpTo(_, _)
\* the strings of at most n characters of the set chars
StringsUpTo(chars, n) ==
    IF n = 0 THEN {""}
    ELSE LET shorter == StringsUpTo(chars, n - 1)
         IN  shorter \cup {s \o c : s \in shorter, c \in chars}

SeqsUpTo(S, n) == UNION {[1..k -> S] : k \in 0..n}

----------------------------------------------------------------------------
(* JavaScript string primitives used by the fix engine *)

WhiteSpace == {" ", "\n"}

\* s.substring(from, to) with 0 <= from <= to <= s.length
substring(s, from, to) == SubSeq(s, from + 1, to)

\* s.charAt(i) with 0 <= i < s.length
charAt(s, i) == SubSeq(s, i + 1, i + 1)

\* does m occur in s at the 0-based offset i
OccursAt(s, m, i) == /\ i + Len(m) <= Len(s)
                     /\ substring(s, i, i + Len(m)) = m

\* s.indexOf(m, from): the least offset >= from where m occurs, -1 when none
indexOf(s, m, from) ==
    LET at == {i \in from..(Len(s) - Len(m)) : OccursAt(s, m, i)}
    IN  IF at = {} THEN -1 ELSE Min(at)

\* s.includes(m)
includes(s, m) == indexOf(s, m, 0) # -1

RECURSIVE trimStart(_)
trimStart(s) == IF s # "" /\ charAt(s, 0) \in WhiteSpace
                THEN trimStart(substring(s, 1, Len(s))) ELSE s

RECURSIVE trimEnd(_)
trimEnd(s) == IF s # "" /\ charAt(s, Len(s) - 1) \in WhiteSpace
              THEN trimEnd(substring(s, 0, Len(s) - 1)) ELSE s

\* s.trim()
trim(s) == trimEnd(trimStart(s))

RECURSIVE splitFrom(_, _, _)
splitFrom(s, sep, p) ==
    LET q == indexOf(s, sep, p)
    IN  IF q = -1 THEN <<substring(s, p, Len(s))>>
        ELSE <<substring(s, p, q)>> \o splitFrom(s, sep, q + Len(sep))

\* s.split(sep) for a string separator and no limit: an empty separator splits
\* between all characters (and gives [] for the empty string)
split(s, sep) ==
    IF sep = "" THEN [i \in 1..Len(s) |-> charAt(s, i - 1)]
    ELSE splitFrom(s, sep, 0)

RECURSIVE join(_, _)
\* parts.join(r)
join(parts, r) ==
    IF parts = <<>> THEN ""
    ELSE IF Len(parts) = 1 THEN parts[1]
    ELSE parts[1] \o r \o join(Tail(parts), r)

Digits == <<"0", "1", "2", "3", "4", "5", "6", "7", "8", "9">>
IsDigit(c) == \E d \in DOMAIN Digits : Digits[d] = c
DigitValue(c) == (CHOOSE d \in DOMAIN Digits : Digits[d] = c) - 1

RECURSIVE GetSubstitution(_, _, _, _, _)
\* The expansion of a replacement template by String.prototype.replace:
\* $$ is $, $& the matched text, $` the text before the match, $' the text
\* after it, $n and $nn the n-th capture when the pattern has one (the empty
\* string when it did not take part); every other character is itself.
GetSubstitution(matched, str, position, captures, replacement) ==
    LET c1 == charAt(replacement, 1)
        c2 == charAt(replacement, 2)
        after(n) == GetSubstitution(matched, str, position, captures,
                                    substring(replacement, n, Len(replacement)))
        capture(n) == IF captures[n] = None THEN "" ELSE captures[n][1]
    IN  IF replacement = "" THEN ""
        ELSE IF charAt(replacement, 0) # "$" \/ Len(replacement) = 1
        THEN charAt(replacement, 0) \o after(1)
        ELSE IF c1 = "$" THEN "$" \o after(2)
        ELSE IF c1 = "&" THEN matched \o after(2)
        ELSE IF c1 = "`" THEN substring(str, 0, position) \o after(2)
        ELSE IF c1 = "'" THEN substring(str, position + Len(matched), Len(str)) \o after(2)
        ELSE IF IsDigit(c1) /\ Len(replacement) >= 3 /\ IsDigit(c2)
                /\ 10 * DigitValue(c1) + DigitValue(c2) \in 1..Len(captures)
        THEN capture(10 * DigitValue(c1) + DigitValue(c2)) \o after(3)
        ELSE IF IsDigit(c1) /\ DigitValue(c1) \in 1..Len(captures)
        THEN capture(DigitValue(c1)) \o after(2)
        ELSE "$" \o after(1)

\* s.replace(m, r) for a string pattern m: the first occurrence only
replace(s, m, r) ==
    LET pos == indexOf(s, m, 0)
    IN  IF pos = -1 THEN s
        ELSE substring(s, 0, pos) \o GetSubstitution(m, s, pos, <<>>, r)
                 \o substring(s, pos + Len(m), Len(s))

----------------------------------------------------------------------------
(* Inputs of the fix engine *)

CodeChars == {"a", "b", " "}
CodeInputs == StringsUpTo(CodeChars, MaxCodeLen)

AffectedCodes == {"", " ", "a", "b", "ab", " a"}
ReplacementCodes == {"bb", "$$"}

\* Issue of types.ts, reduced to the two fields the fix engine reads
Issues == [affectedCode : AffectedCodes, replacementCode : ReplacementCodes]

\* AnalysisReport of types.ts, reduced to its issue list
Reports == [issues : SeqsUpTo(Issues, MaxIssues)]

----------------------------------------------------------------------------
(* App.tsx: handleAnalyze *)

MsgEnterCode == "Please enter some code to analyze."
MsgAnalyzeFailed == "Failed to analyze code."
MsgSnippetNotFound == "Could not automatically locate the exact code snippet (formatting might differ). It may have already been changed."
MsgNoApplicableFixes == "No applicable fixes found automatically (code might have changed or formatting differs)."

\* No request has been made and "Override & Allow" has not been used
NoTrack == [latest |-> "none", latestText |-> "", reportText |-> None, allowed |-> FALSE]

\* a request for the text starts: it is the most recent one
requested(t, text) == [t EXCEPT !.latest = "pending", !.latestText = text]

\* the request at position k of the queue q is the most recent one when that
\* one is still awaited and k is the last position
isLatest(t, q, k) == t.latest = "pending" /\ k = Len(q)

\* the request at position k of the queue q settles
settled(t, q, k, outcome) ==
    [t EXCEPT !.latest = IF isLatest(t, q, k) THEN outcome ELSE @,
              !.reportText = IF outcome = "resolved" THEN Some(q[k].text) ELSE @]

\* The state setters handleAnalyze may call, as one batch of React updates
Batch == [loading |-> loading, error |-> error, previewIssue |-> previewIssue,
          highlightedText |-> highlightedText, highlightColor |-> highlightColor,
          prStatus |-> prStatus, pending |-> pending, track |-> track,
          analyzed |-> None]

\* codeOverride || code: undefined and the empty string both fall back to the
\* code of the render the handler was created in
textToAnalyze(codeOverride) ==
    IF codeOverride # None /\ codeOverride[1] # "" THEN codeOverride[1] ELSE code

\* The synchronous part of handleAnalyze(codeOverride, isPrCheck), up to the
\* await of analyzeCode, applied on top of the updates b already batched
handleAnalyzeStart(b, codeOverride, isPrCheck) ==
    LET text == textToAnalyze(codeOverride)
    IN  IF trim(text) = ""
        THEN [b EXCEPT !.error = MsgEnterCode]
        ELSE [b EXCEPT !.loading = TRUE,
                       !.error = "",
                       !.previewIssue = None,
                       !.highlightedText = None,
                       !.prStatus = IF isPrCheck THEN "checking" ELSE @,
                       !.pending = Append(@, [text |-> text, isPrCheck |-> isPrCheck,
                                              via |-> "handleAnalyze",
                                              stage |-> "analyze"]),
                       !.track = requested(@, text),
                       !.analyzed = Some(text)]

Commit(b) ==
    /\ loading' = b.loading
    /\ error' = b.error
    /\ previewIssue' = b.previewIssue
    /\ highlightedText' = b.highlightedText
    /\ highlightColor' = b.highlightColor
    /\ prStatus' = b.prStatus
    /\ pending' = b.pending
    /\ track' = b.track

NoFix == [n |-> 0, op |-> "none", alert |-> "", issues |-> <<>>,
          before |-> "", after |-> "",
          trace |-> <<>>, appliedCount |-> 0,
          originalHighlights |-> <<>>, modifiedHighlights |-> <<>>,
          analyzed |-> None]

\* The "Analyze Code" button: handleAnalyze(); the Button is given
\* isLoading={loading} and is taken to ignore clicks while loading
handleAnalyze ==
    /\ fixReview = None
    /\ ~loading
    /\ trim(code) # ""
    /\ Len(pending) < MaxPending
    /\ Commit(handleAnalyzeStart(Batch, None, FALSE))
    /\ UNCHANGED <<code, report, fixReview, activeTab, last>>
    /\ UNCHANGED emuVars
    /\ UNCHANGED otherVars

RemoveAt(q, k) == SubSeq(q, 1, k - 1) \o SubSeq(q, k + 1, Len(q))

\* Reports the analyzer answers an analysis with
AnalyzerReports == {[issues |-> <<>>],
                    [issues |-> <<[affectedCode |-> "b", replacementCode |-> "$$"]>>]}

\* analyzeCode resolves: the rest of the try block of handleAnalyze (the same
\* in handleLoadRepo and handleLoadLocal), and finally
AnalyzeResolve ==
    \E k \in DOMAIN pending, result \in AnalyzerReports :
        /\ pending[k].stage = "analyze"
        /\ report' = Some(result)
        /\ prStatus' = IF pending[k].isPrCheck
                       THEN (IF Len(result.issues) > 0 THEN "blocked" ELSE "passed")
                       ELSE prStatus
        /\ loading' = FALSE
        /\ pending' = RemoveAt(pending, k)
        /\ track' = settled(track, pending, k, "resolved")
        /\ UNCHANGED <<code, error, previewIssue, fixReview, highlightedText,
                       highlightColor, activeTab, last>>
        /\ UNCHANGED emuVars
        /\ UNCHANGED otherVars

\* analyzeCode rejects: the catch block of handleAnalyze, or the one of
\* handleLoadRepo and handleLoadLocal (which sets prStatus to 'idle' in any
\* case), and finally
AnalyzeReject ==
    \E k \in DOMAIN pending :
        /\ pending[k].stage = "analyze"
        /\ error' = MsgAnalyzeFailed
        /\ prStatus' = IF pending[k].isPrCheck \/ pending[k].via # "handleAnalyze"
                       THEN "idle" ELSE prStatus
        /\ loading' = FALSE
        /\ pending' = RemoveAt(pending, k)
        /\ track' = settled(track, pending, k, "rejected")
        /\ UNCHANGED <<code, report, previewIssue, fixReview, highlightedText,
                       highlightColor, activeTab, last>>
        /\ UNCHANGED emuVars
        /\ UNCHANGED otherVars

----------------------------------------------------------------------------
(* App.tsx: handleLocateCode, handleApplyFix, handleExitComparison *)

ReportIssues == IF report = None THEN <<>> ELSE report[1].issues

handleLocateCode ==
    \E i \in DOMAIN ReportIssues :
        /\ fixReview = None
        /\ previewIssue' = Some(ReportIssues[i])
        /\ highlightedText' = Some(ReportIssues[i].affectedCode)
        /\ highlightColor' = "red"
        /\ UNCHANGED <<code, report, loading, error, prStatus, fixReview,
                       activeTab, pending, track, last>>
        /\ UNCHANGED emuVars
        /\ UNCHANGED otherVars

\* a lookup that never falls back to the trimmed text
robustMatch_exactOnly(text, affectedCode) == affectedCode

\* "Attempt robust find": the exact text, or its trimmed form when only that
\* one is in the text
robustMatch(text, affectedCode) ==
    IF ~includes(text, affectedCode) /\ includes(text, trim(affectedCode))
    THEN trim(affectedCode) ELSE affectedCode

\* "Apply Fix" of an IssueCard of the report, on the scanner tab
handleApplyFix ==
    \E i \in DOMAIN ReportIssues :
        /\ activeTab = "scanner"
        /\ last.n < MaxFixes
        /\ LET issue == ReportIssues[i]
               match == robustMatch(code, issue.affectedCode)
           IN  IF includes(code, match)
               THEN LET newCode == replace(code, match, issue.replacementCode)
                        b0 == [Batch EXCEPT !.previewIssue = None,
                                            !.highlightedText = Some(issue.replacementCode),
                                            !.highlightColor = "green"]
                        b == handleAnalyzeStart(b0, Some(newCode), FALSE)
                    IN  /\ Len(pending) < MaxPending
                        /\ code' = newCode
                        /\ Commit(b)
                        /\ last' = [NoFix EXCEPT !.n = last.n + 1, !.op = "handleApplyFix",
                                             !.issues = <<issue>>,
                                                 !.before = code, !.after = newCode,
                                                 !.trace = <<[issue |-> issue, match |-> Some(match),
                                                              count |-> 1, text |-> newCode]>>,
                                                 !.appliedCount = 1,
                                                 !.analyzed = b.analyzed]
                        /\ UNCHANGED <<report, fixReview, activeTab>>
                        /\ UNCHANGED emuVars
                        /\ UNCHANGED otherVars
               ELSE /\ last' = [NoFix EXCEPT !.n = last.n + 1, !.op = "handleApplyFix",
                                             !.issues = <<issue>>,
                                             !.alert = MsgSnippetNotFound,
                                             !.before = code, !.after = code,
                                             !.trace = <<[issue |-> issue, match |-> None,
                                                          count |-> 0, text |-> code]>>]
                    /\ UNCHANGED <<code, report, loading, error, previewIssue, prStatus,
                                   fixReview, highlightedText, highlightColor, activeTab,
                                   pending, track>>
                    /\ UNCHANGED emuVars
                    /\ UNCHANGED otherVars

handleExitComparison ==
    /\ fixReview # None
    /\ fixReview' = None
    /\ highlightedText' = None
    /\ UNCHANGED <<code, report, loading, error, previewIssue, prStatus,
                   highlightColor, activeTab, pending, track, last>>
    /\ UNCHANGED emuVars
    /\ UNCHANGED otherVars

----------------------------------------------------------------------------
(* App.tsx: handleFixAll *)

RECURSIVE insertByLength(_, _)
\* insert x after every element that is at least as long (a stable sort step)
insertByLength(x, sorted) ==
    IF sorted = <<>> THEN <<x>>
    ELSE IF Len(Head(sorted).affectedCode) >= Len(x.affectedCode)
    THEN <<Head(sorted)>> \o insertByLength(x, Tail(sorted))
    ELSE <<x>> \o sorted

RECURSIVE sortedIssues(_)
\* [...issues].sort((a, b) => b.affectedCode.length - a.affectedCode.length):
\* descending length; Array.prototype.sort is stable
sortedIssues(issues) ==
    IF issues = <<>> THEN <<>>
    ELSE insertByLength(issues[Len(issues)],
                        sortedIssues(SubSeq(issues, 1, Len(issues) - 1)))

FixAllStart(text) == [updatedCode |-> text, appliedCount |-> 0,
                      originalHighlights |-> <<>>, modifiedHighlights |-> <<>>,
                      trace |-> <<>>]

\* a callback that rewrites the first occurrence only
fixAllIssue_firstOnly(acc, issue) ==
    LET exact == includes(acc.updatedCode, issue.affectedCode)
        trimmed == includes(acc.updatedCode, trim(issue.affectedCode))
        match == IF exact THEN issue.affectedCode ELSE trim(issue.affectedCode)
        parts == split(acc.updatedCode, match)
        skipped == [acc EXCEPT !.trace = Append(@, [issue |-> issue, match |-> None,
                                                    count |-> 0, text |-> acc.updatedCode])]
    IN  IF ~exact /\ ~trimmed THEN skipped
        ELSE IF Len(parts) > 1
        THEN LET joined == parts[1] \o issue.replacementCode \o join(Tail(parts), match)
             IN  [updatedCode |-> joined,
                  appliedCount |-> acc.appliedCount + 1,
                  originalHighlights |-> Append(acc.originalHighlights, match),
                  modifiedHighlights |-> Append(acc.modifiedHighlights, issue.replacementCode),
                  trace |-> Append(acc.trace, [issue |-> issue, match |-> Some(match),
                                               count |-> 1, text |-> joined])]
        ELSE skipped

\* a callback that counts applied issues instead of replaced occurrences
fixAllIssue_countIssues(acc, issue) ==
    LET exact == includes(acc.updatedCode, issue.affectedCode)
        trimmed == includes(acc.updatedCode, trim(issue.affectedCode))
        match == IF exact THEN issue.affectedCode ELSE trim(issue.affectedCode)
        parts == split(acc.updatedCode, match)
        skipped == [acc EXCEPT !.trace = Append(@, [issue |-> issue, match |-> None,
                                                    count |-> 0, text |-> acc.updatedCode])]
    IN  IF ~exact /\ ~trimmed THEN skipped
        ELSE IF Len(parts) > 1
        THEN LET joined == join(parts, issue.replacementCode)
             IN  [updatedCode |-> joined,
                  appliedCount |-> acc.appliedCount + 1,
                  originalHighlights |-> Append(acc.originalHighlights, match),
                  modifiedHighlights |-> Append(acc.modifiedHighlights, issue.replacementCode),
                  trace |-> Append(acc.trace, [issue |-> issue, match |-> Some(match),
                                               count |-> Len(parts) - 1, text |-> joined])]
        ELSE skipped

\* One call of the forEach callback of handleFixAll
fixAllIssue(acc, issue) ==
    LET exact == includes(acc.updatedCode, issue.affectedCode)
        trimmed == includes(acc.updatedCode, trim(issue.affectedCode))
        match == IF exact THEN issue.affectedCode ELSE trim(issue.affectedCode)
        parts == split(acc.updatedCode, match)
        skipped == [acc EXCEPT !.trace = Append(@, [issue |-> issue, match |-> None,
                                                    count |-> 0, text |-> acc.updatedCode])]
    IN  IF ~exact /\ ~trimmed THEN skipped
        ELSE IF Len(parts) > 1
        THEN LET joined == join(parts, issue.replacementCode)
             IN  [updatedCode |-> joined,
                  appliedCount |-> acc.appliedCount + (Len(parts) - 1),
                  originalHighlights |-> Append(acc.originalHighlights, match),
                  modifiedHighlights |-> Append(acc.modifiedHighlights, issue.replacementCode),
                  trace |-> Append(acc.trace, [issue |-> issue, match |-> Some(match),
                                               count |-> Len(parts) - 1, text |-> joined])]
        ELSE skipped

RECURSIVE fixAllLoop_abort(_, _)
\* a loop that gives up at the first issue it cannot find
fixAllLoop_abort(acc, issues) ==
    IF issues = <<>> THEN acc
    ELSE LET r == fixAllIssue(acc, Head(issues))
         IN  IF r.trace[Len(r.trace)].match = None THEN acc
             ELSE fixAllLoop_abort(r, Tail(issues))

RECURSIVE fixAllLoop(_, _)
\* sortedIssues.forEach(issue => ...)
fixAllLoop(acc, issues) ==
    IF issues = <<>> THEN acc
    ELSE fixAllLoop(fixAllIssue(acc, Head(issues)), Tail(issues))

\* a check that never sees an empty batch
nothingApplied_never(r) == FALSE

\* if (appliedCount === 0)
nothingApplied(r) == r.appliedCount = 0

\* the "Fix All Changes" button of the report (not shown during a review) and
\* the one of PrDashboard (shown while the status is 'blocked')
handleFixAll ==
    /\ report # None
    /\ \/ activeTab = "scanner" /\ fixReview = None
       \/ activeTab = "pr-interceptor" /\ prStatus = "blocked"
    /\ last.n < MaxFixes
    /\ Len(report[1].issues) > 0
    /\ LET originalCode == code
           r == fixAllLoop(FixAllStart(code), sortedIssues(report[1].issues))
       IN  IF nothingApplied(r)
           THEN /\ last' = [NoFix EXCEPT !.n = last.n + 1, !.op = "handleFixAll",
                                         !.issues = report[1].issues,
                                         !.alert = MsgNoApplicableFixes,
                                         !.before = originalCode, !.after = r.updatedCode,
                                         !.trace = r.trace]
                /\ UNCHANGED <<code, report, loading, error, previewIssue, prStatus,
                               fixReview, highlightedText, highlightColor, activeTab,
                               pending, track>>
                /\ UNCHANGED emuVars
                /\ UNCHANGED otherVars
           ELSE LET b0 == [Batch EXCEPT !.prStatus = IF activeTab = "pr-interceptor"
                                                      THEN "passed" ELSE @]
                    b == handleAnalyzeStart(b0, Some(r.updatedCode), FALSE)
                IN  /\ Len(pending) < MaxPending
                    /\ fixReview' = Some([original |-> originalCode,
                                          modified |-> r.updatedCode,
                                          originalHighlights |-> r.originalHighlights,
                                          modifiedHighlights |-> r.modifiedHighlights,
                                          isBulkFix |-> TRUE])
                    /\ code' = r.updatedCode
                    /\ Commit(b)
                    /\ last' = [NoFix EXCEPT !.n = last.n + 1, !.op = "handleFixAll",
                                         !.issues = report[1].issues,
                                             !.before = originalCode, !.after = r.updatedCode,
                                             !.trace = r.trace,
                                             !.appliedCount = r.appliedCount,
                                             !.originalHighlights = r.originalHighlights,
                                             !.modifiedHighlights = r.modifiedHighlights,
                                             !.analyzed = b.analyzed]
                    /\ UNCHANGED <<report, activeTab>>
                    /\ UNCHANGED emuVars
                    /\ UNCHANGED otherVars

----------------------------------------------------------------------------
(* ShadowModeEmulator.tsx: regular expressions *)

\* \s and \w
SpaceChars == {" ", "\n", "\t"}
WordChars == {"a", "b", "c", "d", "e", "f", "g", "h", "i", "j", "k", "l",
              "m", "n", "o", "p", "q", "r", "s", "t", "u", "v", "w", "x",
              "y", "z", "A", "B", "C", "D", "E", "F", "G", "H", "I", "J",
              "K", "L", "M", "N", "O", "P", "Q", "R", "S", "T", "U", "V",
              "W", "X", "Y", "Z", "0", "1", "2", "3", "4", "5", "6", "7",
              "8", "9", "_"}

\* A pattern is a tree: a character of a set, a character outside a set, a
\* sequence, an alternative, a greedy repetition, or a capture group.
rxChar(S) == <<"char", S>>
rxNot(S) == <<"not", S>>
rxSeq(rs) == <<"seq", rs>>
rxAlt(rs) == <<"alt", rs>>
rxStar(r) == <<"star", r>>
rxGroup(n, r) == <<"group", n, r>>
rxPlus(r) == rxSeq(<<r, rxStar(r)>>)
rxOpt(r) == rxAlt(<<r, rxSeq(<<>>)>>)
rxStr(s) == rxSeq([i \in 1..Len(s) |-> rxChar({charAt(s, i - 1)})])
SpaceClass == rxChar(SpaceChars)
WordClass == rxChar(WordChars)

\* the captures of a match that has not entered a group yet
NoCaptures == <<None, None>>

RECURSIVE rxMatch(_, _, _)
\* The ways the patterns of todo, one after the other, match s from the state
\* st (an offset and the captures so far), as the states after the match in
\* the order a backtracking matcher tries them: the first one is the match it
\* reports.  Entering a group or a round of a repetition leaves a mark in
\* todo: "close" sets the capture, "again" starts the next round if the round
\* before it consumed something.
rxMatch(todo, s, st) ==
    IF todo = <<>> THEN <<st>>
    ELSE LET r == Head(todo)
             rest == Tail(todo)
         IN  CASE r[1] = "char" ->
                      IF st.pos < Len(s) /\ charAt(s, st.pos) \in r[2]
                      THEN rxMatch(rest, s, [st EXCEPT !.pos = @ + 1]) ELSE <<>>
               [] r[1] = "not" ->
                      IF st.pos < Len(s) /\ charAt(s, st.pos) \notin r[2]
                      THEN rxMatch(rest, s, [st EXCEPT !.pos = @ + 1]) ELSE <<>>
               [] r[1] = "seq" -> rxMatch(r[2] \o rest, s, st)
               [] r[1] = "alt" ->
                      IF r[2] = <<>> THEN <<>>
                      ELSE rxMatch(<<Head(r[2])>> \o rest, s, st)
                               \o rxMatch(<<rxAlt(Tail(r[2]))>> \o rest, s, st)
               [] r[1] = "star" ->
                      rxMatch(<<r[2], <<"again", r, st.pos>> >> \o rest, s, st)
                          \o rxMatch(rest, s, st)
               [] r[1] = "again" ->
                      IF st.pos > r[3] THEN rxMatch(<<r[2]>> \o rest, s, st) ELSE <<>>
               [] r[1] = "group" ->
                      rxMatch(<<r[3], <<"close", r[2], st.pos>> >> \o rest, s, st)
               [] r[1] = "close" ->
                      rxMatch(rest, s,
                              [st EXCEPT !.caps[r[2]] = Some(substring(s, r[3], st.pos))])

\* the match object of the first of the end states ms of a match attempt at i
rxMatchObject(ms, s, i) ==
    IF ms = <<>> THEN None
    ELSE Some([index |-> i, text |-> substring(s, i, ms[1].pos), caps |-> ms[1].caps])

\* the match of the pattern at the offset i of s, if there is one
rxMatchAt(source, s, i) ==
    rxMatchObject(rxMatch(<<source>>, s, [pos |-> i, caps |-> NoCaptures]), s, i)

RECURSIVE rxSearch(_, _, _)
\* the leftmost match of the pattern in s at the offset i or behind it
rxSearch(source, s, i) ==
    IF i > Len(s) THEN None
    ELSE IF rxMatchAt(source, s, i) # None THEN rxMatchAt(source, s, i)
    ELSE rxSearch(source, s, i + 1)

\* an exec that leaves the cursor where it is when it finds nothing
rxExecResult_keepCursor(R, m) ==
    IF m = None
    THEN [match |-> None, lastIndex |-> R.lastIndex]
    ELSE [match |-> m,
          lastIndex |-> IF R.global THEN m[1].index + Len(m[1].text) ELSE R.lastIndex]

\* what exec returns and the lastIndex it leaves, m being the match it found
rxExecResult(R, m) ==
    IF m = None
    THEN [match |-> None, lastIndex |-> IF R.global THEN 0 ELSE R.lastIndex]
    ELSE [match |-> m,
          lastIndex |-> IF R.global THEN m[1].index + Len(m[1].text) ELSE R.lastIndex]

\* regex.exec(str) on a RegExp object R with its lastIndex: the match, or
\* null, and the lastIndex the call leaves in R
rxExec(R, str) ==
    rxExecResult(R, rxSearch(R.source, str, IF R.global THEN R.lastIndex ELSE 0))

RECURSIVE rxReplaceFrom(_, _, _, _), rxReplaceMatch(_, _, _, _, _)
\* str.replace(regex, template) for a global regex, from the offset from on
rxReplaceFrom(str, source, template, from) ==
    rxReplaceMatch(rxSearch(source, str, from), str, source, template, from)

\* the text from the offset from on with the match m and the matches behind
\* it replaced; an empty match moves the search on by one character
rxReplaceMatch(m, str, source, template, from) ==
    IF m = None THEN substring(str, from, Len(str))
    ELSE substring(str, from, m[1].index)
             \o GetSubstitution(m[1].text, str, m[1].index, m[1].caps, template)
             \o (IF m[1].text # ""
                 THEN rxReplaceFrom(str, source, template, m[1].index + Len(m[1].text))
                 ELSE IF m[1].index < Len(str)
                 THEN charAt(str, m[1].index)
                          \o rxReplaceFrom(str, source, template, m[1].index + 1)
                 ELSE "")

----------------------------------------------------------------------------
(* ShadowModeEmulator.tsx: EMULATOR_PROFILES *)

React19 ==
    [id |-> "react-19", name |-> "React", versionLabel |-> "v19 (Compiler Era)",
     rules |-> <<
        [id |-> "no-forward-ref",
         \* pattern: /forwardRef\s*\(/g
         pattern |-> [source |-> rxSeq(<<rxStr("forwardRef"), rxStar(SpaceClass),
                     rxChar({"("})>>), global |-> TRUE],
         severity |-> "Critical",
         message |-> "forwardRef is removed in React 19. Refs are now passed as standard props.",
         migrationSuggestion |-> "Remove forwardRef wrapper and accept \"ref\" as a prop directly.",
         \* fixReplacer: code.replace(/forwardRef\s*\(\s*(?:async\s*)?function\s*([^(]*)\(([^)]*)\)/g, 'function $1($2)')
         fixReplacer |-> Some([source |-> rxSeq(<<rxStr("forwardRef"), rxStar(SpaceClass),
                     rxChar({"("}), rxStar(SpaceClass), rxOpt(rxSeq(<<rxStr("async"),
                     rxStar(SpaceClass)>>)), rxStr("function"), rxStar(SpaceClass), rxGroup(1,
                     rxStar(rxNot({"("}))), rxChar({"("}), rxGroup(2, rxStar(rxNot({")"}))),
                     rxChar({")"})>>),
                             template |-> "function $1($2)"])],
        [id |-> "use-callback-obsolete",
         \* pattern: /useCallback\(/g
         pattern |-> [source |-> rxStr("useCallback("), global |-> TRUE],
         severity |-> "Warning",
         message |-> "useCallback is often redundant with React Compiler auto-memoization.",
         migrationSuggestion |-> "Remove useCallback unless specifically needed for external consumers.",
         \* fixReplacer: code.replace(/useCallback\(\s*\(\)\s*=>\s*{([^}]*)}\s*,\s*\[[^\]]*\]\s*\)/g, '() => { $1 }')
         fixReplacer |-> Some([source |-> rxSeq(<<rxStr("useCallback("), rxStar(SpaceClass),
                     rxStr("()"), rxStar(SpaceClass), rxStr("=>"), rxStar(SpaceClass),
                     rxChar({"{"}), rxGroup(1, rxStar(rxNot({"}"}))), rxChar({"}"}),
                     rxStar(SpaceClass), rxChar({","}), rxStar(SpaceClass), rxChar({"["}),
                     rxStar(rxNot({"]"})), rxChar({"]"}), rxStar(SpaceClass), rxChar({")"})>>),
                             template |-> "() => { $1 }"])],
        [id |-> "no-default-props",
         \* pattern: /\.defaultProps\s*=/g
         pattern |-> [source |-> rxSeq(<<rxStr(".defaultProps"), rxStar(SpaceClass),
                     rxChar({"="})>>), global |-> TRUE],
         severity |-> "Critical",
         message |-> "defaultProps on function components are removed.",
         migrationSuggestion |-> "Use default parameter values in the component function signature.",
         fixReplacer |-> None],
        [id |-> "legacy-lifecycle",
         \* pattern: /componentWill(Mount|ReceiveProps|Update)/g
         pattern |-> [source |-> rxSeq(<<rxStr("componentWill"), rxGroup(1,
                     rxAlt(<<rxStr("Mount"), rxStr("ReceiveProps"),
                     rxStr("Update")>>))>>), global |-> TRUE],
         severity |-> "Critical",
         message |-> "Legacy lifecycle methods throw runtime errors in React 19.",
         migrationSuggestion |-> "Migrate to useEffect or functional components.",
         fixReplacer |-> None] >>]

Node24 ==
    [id |-> "node-24", name |-> "Node.js", versionLabel |-> "v24 (ESM Only)",
     rules |-> <<
        [id |-> "no-require",
         \* pattern: /require\s*\(['"][^'"]+['"]\)/g
         pattern |-> [source |-> rxSeq(<<rxStr("require"), rxStar(SpaceClass), rxChar({"("}),
                     rxChar({"'", "\""}), rxPlus(rxNot({"'", "\""})), rxChar({"'", "\""}),
                     rxChar({")"})>>), global |-> TRUE],
         severity |-> "Critical",
         message |-> "CommonJS \"require\" is disabled. Module loading failed.",
         migrationSuggestion |-> "Switch to ESM \"import\" syntax.",
         \* fixReplacer: code.replace(/const\s+(\w+)\s*=\s*require\(['"]([^'"]+)['"]\)/g, 'import $1 from "$2"')
         fixReplacer |-> Some([source |-> rxSeq(<<rxStr("const"), rxPlus(SpaceClass), rxGroup(1,
                     rxPlus(WordClass)), rxStar(SpaceClass), rxChar({"="}), rxStar(SpaceClass),
                     rxStr("require("), rxChar({"'", "\""}), rxGroup(2,
                     rxPlus(rxNot({"'", "\""}))), rxChar({"'", "\""}), rxChar({")"})>>),
                             template |-> "import $1 from \"$2\""])],
        [id |-> "no-dirname",
         \* pattern: /__dirname/g
         pattern |-> [source |-> rxStr("__dirname"), global |-> TRUE],
         severity |-> "Critical",
         message |-> "__dirname is not defined in ESM modules.",
         migrationSuggestion |-> "Use import.meta.url and fileURLToPath.",
         fixReplacer |-> None],
        [id |-> "fs-exists-removed",
         \* pattern: /fs\.exists\(/g
         pattern |-> [source |-> rxStr("fs.exists("), global |-> TRUE],
         severity |-> "Warning",
         message |-> "fs.exists is hard-removed.",
         migrationSuggestion |-> "Use fs.stat() or fs.access().",
         fixReplacer |-> None],
        [id |-> "buffer-constructor",
         \* pattern: /new\s+Buffer\(/g
         pattern |-> [source |-> rxSeq(<<rxStr("new"), rxPlus(SpaceClass),
                     rxStr("Buffer(")>>), global |-> TRUE],
         severity |-> "Critical",
         message |-> "Buffer() constructor throws SecurityError.",
         migrationSuggestion |-> "Use Buffer.from() or Buffer.alloc().",
         \* fixReplacer: code.replace(/new\s+Buffer\(/g, 'Buffer.from(')
         fixReplacer |-> Some([source |-> rxSeq(<<rxStr("new"), rxPlus(SpaceClass),
                     rxStr("Buffer(")>>),
                             template |-> "Buffer.from("])] >>]

Angular2026 ==
    [id |-> "angular-2026", name |-> "Angular", versionLabel |-> "v20 (Zoneless)",
     rules |-> <<
        [id |-> "input-decorator",
         \* pattern: /@Input\(\)/g
         pattern |-> [source |-> rxStr("@Input()"), global |-> TRUE],
         severity |-> "Warning",
         message |-> "@Input decorator usage triggers legacy compatibility mode.",
         migrationSuggestion |-> "Use the new signal-based input() function.",
         \* fixReplacer: code.replace(/@Input\(\)\s*(\w+)\s*:\s*([^;]+);/g, '$1 = input<$2>();')
         fixReplacer |-> Some([source |-> rxSeq(<<rxStr("@Input()"), rxStar(SpaceClass),
                     rxGroup(1, rxPlus(WordClass)), rxStar(SpaceClass), rxChar({":"}),
                     rxStar(SpaceClass), rxGroup(2, rxPlus(rxNot({";"}))), rxChar({";"})>>),
                             template |-> "$1 = input<$2>();"])],
        [id |-> "ng-if-directive",
         \* pattern: /\*ngIf/g
         pattern |-> [source |-> rxStr("*ngIf"), global |-> TRUE],
         severity |-> "Warning",
         message |-> "*ngIf directive is deprecated.",
         migrationSuggestion |-> "Use the new @if block syntax.",
         fixReplacer |-> None],
        [id |-> "zone-usage",
         \* pattern: /NgZone/g
         pattern |-> [source |-> rxStr("NgZone"), global |-> TRUE],
         severity |-> "Critical",
         message |-> "NgZone dependency injection failed. App is running Zoneless.",
         migrationSuggestion |-> "Remove Zone.js dependencies and use Signals for reactivity.",
         fixReplacer |-> None] >>]

Vue5 ==
    [id |-> "vue-5", name |-> "Vue.js", versionLabel |-> "v5 (Vapor Mode)",
     rules |-> <<
        [id |-> "options-api-data",
         \* pattern: /data\s*\(\)\s*\{/g
         pattern |-> [source |-> rxSeq(<<rxStr("data"), rxStar(SpaceClass), rxStr("()"),
                     rxStar(SpaceClass), rxChar({"{"})>>), global |-> TRUE],
         severity |-> "Critical",
         message |-> "Options API \"data()\" detected. Component failed to mount.",
         migrationSuggestion |-> "Rewrite using Composition API (script setup).",
         fixReplacer |-> None],
        [id |-> "legacy-v-model",
         \* pattern: /v-model:value/g
         pattern |-> [source |-> rxStr("v-model:value"), global |-> TRUE],
         severity |-> "Critical",
         message |-> "v-model:value is not supported.",
         migrationSuggestion |-> "Use standard v-model or defineModel().",
         fixReplacer |-> None],
        [id |-> "vue-observable",
         \* pattern: /Vue\.observable/g
         pattern |-> [source |-> rxStr("Vue.observable"), global |-> TRUE],
         severity |-> "Warning",
         message |-> "Vue.observable is removed.",
         migrationSuggestion |-> "Use reactive() from Vue core.",
         \* fixReplacer: code.replace(/Vue\.observable\(/g, 'reactive(')
         fixReplacer |-> Some([source |-> rxStr("Vue.observable("),
                             template |-> "reactive("])] >>]

EMULATOR_PROFILES == <<React19, Node24, Angular2026, Vue5>>

----------------------------------------------------------------------------
(* ShadowModeEmulator.tsx: runSimulation *)

RECURSIVE parsePattern(_, _)
\* The pattern a pattern string denotes, read from the left with done the
\* terms read so far: an ordinary character stands for itself, "." for any
\* character but a line terminator, and "*", "+" and "?" repeat the term
\* before them.  (Strings with brackets, bars, braces, anchors or backslashes
\* are outside what this reads.)
parsePattern(str, done) ==
    IF str = "" THEN rxSeq(done)
    ELSE IF Head(str) = "." THEN parsePattern(Tail(str), Append(done, rxNot({"\n", "\r"})))
    ELSE IF Head(str) = "*"
    THEN parsePattern(Tail(str), [done EXCEPT ![Len(done)] = rxStar(@)])
    ELSE IF Head(str) = "+"
    THEN parsePattern(Tail(str), [done EXCEPT ![Len(done)] = rxPlus(@)])
    ELSE IF Head(str) = "?"
    THEN parsePattern(Tail(str), [done EXCEPT ![Len(done)] = rxOpt(@)])
    ELSE parsePattern(Tail(str), Append(done, rxChar({Head(str)})))

\* typeof rule.pattern === 'string'; a string pattern is [string |-> ...] and
\* a RegExp object [source |-> ..., global |-> ...]
isString(pattern) == "string" \in DOMAIN pattern

\* typeof rule.pattern === 'string' ? new RegExp(rule.pattern, 'g') : rule.pattern,
\* and regex.lastIndex = 0
regexOf(pattern) ==
    IF isString(pattern)
    THEN [source |-> parsePattern(pattern.string, <<>>), global |-> TRUE, lastIndex |-> 0]
    ELSE [source |-> pattern.source, global |-> pattern.global, lastIndex |-> 0]

\* lines counted from 0
lineOf_zeroBased(text, index) == Len(split(substring(text, 0, index), "\n")) - 1

\* the line of the offset index of text
lineOf(text, index) == Len(split(substring(text, 0, index), "\n"))

\* breakages.push({...})
breakage(rule, text, m) ==
    [ruleId |-> rule.id,
     severity |-> rule.severity,
     message |-> rule.message,
     line |-> lineOf(text, m.index),
     match |-> m.text,
     suggestion |-> rule.migrationSuggestion]

RECURSIVE execLoop(_, _, _, _, _), execBody(_, _, _, _, _, _)

\* a scan that stops at the first match of a rule
execBody_firstOnly(x, R, text, rule, found, fuel) ==
    IF x.match = None
    THEN [breakages |-> found, lastIndex |-> x.lastIndex, returned |-> TRUE]
    ELSE [breakages |-> Append(found, breakage(rule, text, x.match[1])),
          lastIndex |-> 0, returned |-> TRUE]

\* One test of the loop condition, x being what regex.exec(code) returned,
\* and the loop body.  A loop that finds more matches than the text has
\* offsets never ends: returned is FALSE then.
execBody(x, R, text, rule, found, fuel) ==
    IF x.match = None
    THEN [breakages |-> found, lastIndex |-> x.lastIndex, returned |-> TRUE]
    ELSE IF fuel = 0
    THEN [breakages |-> found, lastIndex |-> x.lastIndex, returned |-> FALSE]
    ELSE execLoop([R EXCEPT !.lastIndex = x.lastIndex], text, rule,
                  Append(found, breakage(rule, text, x.match[1])), fuel - 1)

\* while ((match = regex.exec(code)) !== null) { ... breakages.push(...) }
execLoop(R, text, rule, found, fuel) ==
    execBody(rxExec(R, text), R, text, rule, found, fuel)

\* rule.fixReplacer(patchedCode, "")
fixReplacer(rule, patchedCode) ==
    rxReplaceFrom(patchedCode, rule.fixReplacer[1].source, rule.fixReplacer[1].template, 0)

\* an [Error] line whatever the severity of the rule
afterLoop_allError(acc, loop, rule, k) ==
    IF ~loop.returned THEN [acc EXCEPT !.returned = FALSE]
    ELSE IF loop.breakages = <<>>
    THEN [acc EXCEPT !.lastIndex[k] = loop.lastIndex]
    ELSE [breakages |-> acc.breakages \o loop.breakages,
          logs |-> Append(acc.logs, "[Error] Runtime Exception: " \o rule.message),
          patchedCode |-> IF rule.fixReplacer # None
                          THEN fixReplacer(rule, acc.patchedCode)
                          ELSE acc.patchedCode,
          lastIndex |-> [acc.lastIndex EXCEPT ![k] = loop.lastIndex],
          returned |-> TRUE]

\* a log line and a patch for every rule, matched or not
afterLoop_always(acc, loop, rule, k) ==
    IF ~loop.returned THEN [acc EXCEPT !.returned = FALSE]
    ELSE [breakages |-> acc.breakages \o loop.breakages,
          logs |-> IF rule.severity = "Critical"
                   THEN Append(acc.logs, "[Error] Runtime Exception: " \o rule.message)
                   ELSE Append(acc.logs, "[Warn] Deprecation Notice: " \o rule.message),
          patchedCode |-> IF rule.fixReplacer # None
                          THEN fixReplacer(rule, acc.patchedCode)
                          ELSE acc.patchedCode,
          lastIndex |-> [acc.lastIndex EXCEPT ![k] = loop.lastIndex],
          returned |-> TRUE]

\* findings of a rule put in front of the findings of the rules before it
afterLoop_prepend(acc, loop, rule, k) ==
    IF ~loop.returned THEN [acc EXCEPT !.returned = FALSE]
    ELSE IF loop.breakages = <<>>
    THEN [acc EXCEPT !.lastIndex[k] = loop.lastIndex]
    ELSE [breakages |-> loop.breakages \o acc.breakages,
          logs |-> IF rule.severity = "Critical"
                   THEN Append(acc.logs, "[Error] Runtime Exception: " \o rule.message)
                   ELSE Append(acc.logs, "[Warn] Deprecation Notice: " \o rule.message),
          patchedCode |-> IF rule.fixReplacer # None
                          THEN fixReplacer(rule, acc.patchedCode)
                          ELSE acc.patchedCode,
          lastIndex |-> [acc.lastIndex EXCEPT ![k] = loop.lastIndex],
          returned |-> TRUE]

\* if (hasMatch) { logs.push(...); if (rule.fixReplacer) { ... } }, loop being
\* what the while loop of the rule number k found
afterLoop(acc, loop, rule, k) ==
    IF ~loop.returned THEN [acc EXCEPT !.returned = FALSE]
    ELSE IF loop.breakages = <<>>
    THEN [acc EXCEPT !.lastIndex[k] = loop.lastIndex]
    ELSE [breakages |-> acc.breakages \o loop.breakages,
          logs |-> IF rule.severity = "Critical"
                   THEN Append(acc.logs, "[Error] Runtime Exception: " \o rule.message)
                   ELSE Append(acc.logs, "[Warn] Deprecation Notice: " \o rule.message),
          patchedCode |-> IF rule.fixReplacer # None
                          THEN fixReplacer(rule, acc.patchedCode)
                          ELSE acc.patchedCode,
          lastIndex |-> [acc.lastIndex EXCEPT ![k] = loop.lastIndex],
          returned |-> TRUE]

\* a callback that tests the pattern once, from the cursor the call before left
simulateRule_noReset(acc, text, rule, k) ==
    LET x == rxExec([regexOf(rule.pattern) EXCEPT !.lastIndex = acc.lastIndex[k]], text)
    IN  afterLoop(acc,
                  [breakages |-> IF x.match = None THEN <<>>
                                 ELSE <<breakage(rule, text, x.match[1])>>,
                   lastIndex |-> x.lastIndex, returned |-> TRUE],
                  rule, k)

\* One call of the forEach callback of runSimulation, on the rule number k
simulateRule(acc, text, rule, k) ==
    afterLoop(acc,
              execLoop(regexOf(rule.pattern), text, rule, <<>>, Len(text) + 1),
              rule, k)

RECURSIVE simulateRules(_, _, _, _)
\* profile.rules.forEach(rule => ...), from the rule number k on
simulateRules(acc, text, rules, k) ==
    IF k > Len(rules) \/ ~acc.returned THEN acc
    ELSE simulateRules(simulateRule(acc, text, rules[k], k), text, rules, k + 1)

RECURSIVE scoreOf_percent(_, _)
\* a Warning costs a tenth of the score reached so far
scoreOf_percent(score, breakages) ==
    IF breakages = <<>> THEN score
    ELSE scoreOf_percent(score - (IF Head(breakages).severity = "Critical" THEN 25 ELSE 0)
                               - (IF Head(breakages).severity = "Warning"
                                  THEN score \div 10 ELSE 0)
                               - (IF Head(breakages).severity = "Info" THEN 2 ELSE 0),
                         Tail(breakages))

RECURSIVE scoreOf(_, _)
\* let score = 100; breakages.forEach(b => { ... score -= ... })
scoreOf(score, breakages) ==
    IF breakages = <<>> THEN score
    ELSE scoreOf(score - (IF Head(breakages).severity = "Critical" THEN 25 ELSE 0)
                       - (IF Head(breakages).severity = "Warning" THEN 10 ELSE 0)
                       - (IF Head(breakages).severity = "Info" THEN 2 ELSE 0),
                 Tail(breakages))

\* no lower limit
Max_unclamped(a, b) == b

\* Math.max
Max(a, b) == IF a >= b THEN a ELSE b

\* a result whose patchedCode is the patched text also when nothing changed
simulationEnd_keepText(r, text, profile) ==
    [returned |-> r.returned,
     lastIndex |-> r.lastIndex,
     result |-> [score |-> Max(0, scoreOf(100, r.breakages)),
                 breakages |-> r.breakages,
                 patchedCode |-> r.patchedCode,
                 logs |-> IF Len(r.breakages) = 0
                          THEN Append(r.logs, "[Success] Application mounted successfully in "
                                                  \o profile.versionLabel \o ".")
                          ELSE Append(r.logs, "[System] Process terminated with "
                                                  \o ToString(Len(r.breakages)) \o " issues.")]]

\* the rest of runSimulation behind the forEach over the rules, r being what
\* the forEach left
simulationEnd(r, text, profile) ==
    [returned |-> r.returned,
     lastIndex |-> r.lastIndex,
     result |-> [score |-> Max(0, scoreOf(100, r.breakages)),
                 breakages |-> r.breakages,
                 patchedCode |-> IF r.patchedCode # text THEN r.patchedCode ELSE "",
                 logs |-> IF Len(r.breakages) = 0
                          THEN Append(r.logs, "[Success] Application mounted successfully in "
                                                  \o profile.versionLabel \o ".")
                          ELSE Append(r.logs, "[System] Process terminated with "
                                                  \o ToString(Len(r.breakages)) \o " issues.")]]

\* runSimulation(code, profile), with li the lastIndex of the RegExp object of
\* each rule of the profile: the EmulationResult and the lastIndex values the
\* call leaves behind; returned is FALSE when the call never returns
runSimulation(text, profile, li) ==
    simulationEnd(simulateRules([breakages |-> <<>>,
                                 logs |-> <<"[System] Booting " \o profile.name \o " "
                                                \o profile.versionLabel \o " Kernel...">>,
                                 patchedCode |-> text, lastIndex |-> li, returned |-> TRUE],
                                text, profile.rules, 1),
                  text, profile)

----------------------------------------------------------------------------
(* ShadowModeEmulator.tsx: the component *)

\* A profile of the EmulatorProfile shape outside EMULATOR_PROFILES, with a
\* rule of each severity, to run runSimulation on
SeverityProfile ==
    [id |-> "severities", name |-> "Severities", versionLabel |-> "v1",
     rules |-> <<
        [id |-> "critical-a", pattern |-> [source |-> rxStr("a"), global |-> TRUE],
         severity |-> "Critical", message |-> "a is removed.",
         migrationSuggestion |-> "Drop a.", fixReplacer |-> None],
        [id |-> "warning-b", pattern |-> [source |-> rxPlus(rxChar({"b"})), global |-> TRUE],
         severity |-> "Warning", message |-> "b is deprecated.",
         migrationSuggestion |-> "Drop b.", fixReplacer |-> None],
        [id |-> "info-c", pattern |-> [source |-> rxStr("c"), global |-> TRUE],
         severity |-> "Info", message |-> "c is discouraged.",
         migrationSuggestion |-> "Drop c.", fixReplacer |-> None] >>]

\* A profile whose patterns are strings
StringProfile ==
    [id |-> "strings", name |-> "Strings", versionLabel |-> "v1",
     rules |-> <<
        [id |-> "string-dot", pattern |-> [string |-> "a.b"],
         severity |-> "Warning", message |-> "a.b is deprecated.",
         migrationSuggestion |-> "Drop a.b.", fixReplacer |-> None],
        [id |-> "string-plain", pattern |-> [string |-> "cd"],
         severity |-> "Critical", message |-> "cd is removed.",
         migrationSuggestion |-> "Use dc.",
         fixReplacer |-> Some([source |-> rxStr("cd"), template |-> "dc"])] >>]

\* A profile with a RegExp pattern without the g flag
NonGlobalProfile ==
    [id |-> "non-global", name |-> "NonGlobal", versionLabel |-> "v1",
     rules |-> <<
        [id |-> "global-c", pattern |-> [source |-> rxStr("cd"), global |-> TRUE],
         severity |-> "Warning", message |-> "cd is deprecated.",
         migrationSuggestion |-> "Use dc.",
         fixReplacer |-> Some([source |-> rxStr("cd"), template |-> "dc"])],
        [id |-> "non-global-a", pattern |-> [source |-> rxStr("a"), global |-> FALSE],
         severity |-> "Critical", message |-> "a is removed.",
         migrationSuggestion |-> "Drop a.", fixReplacer |-> None] >>]

\* the profiles runSimulation is run on
Profiles == EMULATOR_PROFILES \o <<SeverityProfile, StringProfile, NonGlobalProfile>>

\* the profiles of the component and the one with every severity
ScanProfiles == 1..5
\* the profiles with string patterns and patterns without the g flag
ProbeProfiles == 6..7

\* Pieces the input texts of each profile are put together from
Fragments == <<
        {"forwardRef", "(function f(p)", "useCallback(", "componentWillMount\n"},
        {"const f = require('fs')", "__dirname", "fs.exists(", "new \nBuffer("},
        {"@Input() x: T;", "*ngIf", "NgZone", "\n"},
        {"data ()\n{", "v-model:value", "Vue.observable(", "\n"},
        {"aaa", "bb", "c\n", "caaab"},
        {"a.b", "axb", "cd", "\n"},
        {"a", "cd", "b", "\n"} >>

EmuTexts(p) == {Concat(fs) : fs \in SeqsUpTo(Fragments[p], MaxFrags)}

\* every RegExp object as its literal created it
LastIndexInit == [p \in DOMAIN Profiles |-> [k \in DOMAIN Profiles[p].rules |-> 0]]

activeProfile == Profiles[activeProfileId]

\* a timer callback is inside a call of runSimulation that never returns: no
\* other handler of the page runs
scanRunning == bootTimers # <<>> /\ Head(bootTimers).running

handleStartSimulation ==
    /\ ~isBooting
    /\ isBooting' = TRUE
    /\ simulationResult' = None
    /\ bootTimers' = Append(bootTimers, [code |-> emuCode, activeProfileId |-> activeProfileId,
                                         running |-> FALSE])
    /\ UNCHANGED <<emuCode, activeProfileId, lastIndex, scanned>>
    /\ UNCHANGED appVars
    /\ UNCHANGED otherVars

\* the setTimeout callback of handleStartSimulation, 1200 ms later
bootTimerFires ==
    /\ bootTimers # <<>>
    /\ ~scanRunning
    /\ \E t \in {Head(bootTimers)} :
          \E r \in {runSimulation(t.code, Profiles[t.activeProfileId],
                                  lastIndex[t.activeProfileId])} :
              IF r.returned
              THEN /\ simulationResult' = Some(r.result)
                   /\ scanned' = Some([code |-> t.code, activeProfileId |-> t.activeProfileId])
                   /\ lastIndex' = [lastIndex EXCEPT ![t.activeProfileId] = r.lastIndex]
                   /\ isBooting' = FALSE
                   /\ bootTimers' = Tail(bootTimers)
              ELSE /\ bootTimers' = <<[t EXCEPT !.running = TRUE]>> \o Tail(bootTimers)
                   /\ UNCHANGED <<simulationResult, scanned, lastIndex, isBooting>>
    /\ UNCHANGED <<emuCode, activeProfileId>>
    /\ UNCHANGED appVars
    /\ UNCHANGED otherVars

\* the "Target Kernel" select
setActiveProfileId ==
    \E p \in DOMAIN EMULATOR_PROFILES :
        /\ ~scanRunning
        /\ p # activeProfileId
        /\ activeProfileId' = p
        /\ UNCHANGED <<emuCode, simulationResult, isBooting, bootTimers, lastIndex, scanned>>
        /\ UNCHANGED appVars
        /\ UNCHANGED otherVars

\* the "Apply Patches" button of the Auto-Migration Preview
applyPatches ==
    /\ simulationResult # None
    /\ simulationResult[1].patchedCode # ""
    /\ emuCode # simulationResult[1].patchedCode
    /\ emuCode' = simulationResult[1].patchedCode
    /\ UNCHANGED <<activeProfileId, simulationResult, isBooting, bootTimers, lastIndex, scanned>>
    /\ UNCHANGED appVars
    /\ UNCHANGED otherVars

----------------------------------------------------------------------------
(* The fix engine on every text and report within the bounds *)

\* geminiService: no analyzeCode call has been made
NoCall == [pc |-> "idle", code |-> "", timestamp |-> 0, timer |-> "none",
           calls |-> <<>>, fetched |-> "pending", status |-> 0, body |-> "none",
           data |-> None, failure |-> None, outcomes |-> <<>>]

\* no CodeEditor under observation
NoEditor == [value |-> "", highlights |-> <<>>, highlightColor |-> "none",
             ranges |-> <<>>, mergedRanges |-> <<>>, elements |-> <<>>,
             rendered |-> FALSE]

OtherIdle ==
    /\ svc = NoCall
    /\ view = None
    /\ editor = NoEditor

EmuIdle ==
    /\ emuCode = ""
    /\ activeProfileId = 1
    /\ simulationResult = None
    /\ isBooting = FALSE
    /\ bootTimers = <<>>
    /\ lastIndex = LastIndexInit
    /\ scanned = None

Init ==
    /\ code \in CodeInputs
    /\ report \in {Some(r) : r \in Reports}
    /\ loading = FALSE
    /\ error = ""
    /\ previewIssue = None
    /\ activeTab \in {"scanner", "pr-interceptor"}
    /\ prStatus = IF activeTab = "pr-interceptor" THEN "blocked" ELSE "idle"
    /\ fixReview = None
    /\ highlightedText = None
    /\ highlightColor = "red"
    /\ pending = <<>>
    /\ track = NoTrack
    /\ last = NoFix
    /\ EmuIdle
    /\ OtherIdle

Next ==
    \/ handleAnalyze
    \/ AnalyzeResolve
    \/ AnalyzeReject
    \/ handleLocateCode
    \/ handleApplyFix
    \/ handleExitComparison
    \/ handleFixAll

Spec == Init /\ [][Next]_vars

----------------------------------------------------------------------------
(* Occurrences of a snippet, stated by position *)

RECURSIVE NonOverlapping(_, _, _)
\* the start offsets of the non-overlapping occurrences of the non-empty m
\* in s, found left to right from the offset from
NonOverlapping(s, m, from) ==
    LET at == {i \in from..(Len(s) - Len(m)) : OccursAt(s, m, i)}
    IN  IF at = {} THEN <<>>
        ELSE <<Min(at)>> \o NonOverlapping(s, m, Min(at) + Len(m))

\* the number of offsets at which m occurs in s
Occurrences(s, m) == Cardinality({i \in 0..(Len(s) - Len(m)) : OccursAt(s, m, i)})

Chars(s) == {charAt(s, i) : i \in 0..(Len(s) - 1)}

\* u is t with each non-overlapping occurrence of m replaced by r and all
\* text between the occurrences kept
AllReplaced(t, m, r, u) ==
    LET occ == NonOverlapping(t, m, 0)
        k == Len(occ)
        d == Len(r) - Len(m)
        gapStart(j) == IF j = 0 THEN 0 ELSE occ[j] + Len(m)
        gapEnd(j) == IF j = k THEN Len(t) ELSE occ[j + 1]
    IN  /\ Len(u) = Len(t) + k * d
        /\ \A j \in 1..k :
               substring(u, occ[j] + (j - 1) * d, occ[j] + (j - 1) * d + Len(r)) = r
        /\ \A j \in 0..k :
               substring(u, gapStart(j) + j * d, gapEnd(j) + j * d)
                   = substring(t, gapStart(j), gapEnd(j))

\* the text a bulk fix step k started from
PrevText(k) == IF k = 1 THEN last.before ELSE last.trace[k - 1].text

BulkFixDone == last.op = "handleFixAll"
SingleFixDone == last.op = "handleApplyFix"

----------------------------------------------------------------------------
(* C2 *)

OneIssueBulkFix ==
    /\ BulkFixDone
    /\ Len(last.trace) = 1
    /\ last.trace[1].issue.affectedCode # ""
    /\ includes(last.before, last.trace[1].issue.affectedCode)

\* C2 as claimed: after a bulk fix of one issue whose snippet occurs k >= 1
\* times in the text, the text contains 0 occurrences of the snippet and k
\* occurrences of the replacement.
C2_AsClaimed ==
    OneIssueBulkFix =>
        LET issue == last.trace[1].issue
            k == Len(NonOverlapping(last.before, issue.affectedCode, 0))
        IN  /\ Occurrences(last.after, issue.affectedCode) = 0
            /\ Occurrences(last.after, issue.replacementCode) = k

\* C2 amended: a bulk fix of one issue whose snippet occurs in the text
\* replaces each of the k non-overlapping, left-to-right occurrences of the
\* snippet by the replacement, keeps the text between them and counts k; the
\* result is free of the snippet when the replacement is non-empty and has no
\* character in common with the snippet.
C2_GlobalReplace ==
    OneIssueBulkFix =>
        LET issue == last.trace[1].issue
            m == issue.affectedCode
            r == issue.replacementCode
        IN  /\ AllReplaced(last.before, m, r, last.after)
            /\ last.appliedCount = Len(NonOverlapping(last.before, m, 0))
            /\ (r # "" /\ Chars(r) \cap Chars(m) = {}) => ~includes(last.after, m)

C2_Witness ==
    /\ OneIssueBulkFix
    /\ Len(NonOverlapping(last.before, last.trace[1].issue.affectedCode, 0)) >= 2
    /\ last.after # last.before

----------------------------------------------------------------------------
(* C3 *)

\* the offsets covered by the non-overlapping occurrences of m in t
Spans(t, m) ==
    LET occ == NonOverlapping(t, m, 0)
    IN  UNION {occ[j]..(occ[j] + Len(m) - 1) : j \in DOMAIN occ}

RECURSIVE OverlapSafeFrom(_, _, _, _)
\* t from the offset i on, with every occurrence of A's snippet replaced by
\* A's replacement and every occurrence of B's snippet that lies outside the
\* spans of A replaced by B's replacement
OverlapSafeFrom(t, A, B, i) ==
    LET a == A.affectedCode
        b == B.affectedCode
        occA == NonOverlapping(t, a, 0)
        startsA == {occA[j] : j \in DOMAIN occA}
    IN  IF i >= Len(t) THEN ""
        ELSE IF i \in startsA
        THEN A.replacementCode \o OverlapSafeFrom(t, A, B, i + Len(a))
        ELSE IF OccursAt(t, b, i) /\ (i..(i + Len(b) - 1)) \cap Spans(t, a) = {}
        THEN B.replacementCode \o OverlapSafeFrom(t, A, B, i + Len(b))
        ELSE charAt(t, i) \o OverlapSafeFrom(t, A, B, i + 1)

\* a bulk fix of two issues, the snippet of the second contained in the longer
\* snippet of the first, and the first one present in the text
OverlappingBulkFix ==
    /\ BulkFixDone
    /\ Len(last.trace) = 2
    /\ last.trace[2].issue.affectedCode # ""
    /\ Len(last.trace[1].issue.affectedCode) > Len(last.trace[2].issue.affectedCode)
    /\ includes(last.trace[1].issue.affectedCode, last.trace[2].issue.affectedCode)
    /\ includes(last.before, last.trace[1].issue.affectedCode)

\* C3 as claimed: when the snippet of issue B is contained in the snippet of
\* issue A, the bulk fix rewrites A first and the final text has every
\* occurrence of A's snippet as exactly A's replacement, with B's replacement
\* applied only to the occurrences of B's snippet outside the spans of A.
C3_AsClaimed ==
    OverlappingBulkFix =>
        last.after = OverlapSafeFrom(last.before, last.trace[1].issue, last.trace[2].issue, 0)

----------------------------------------------------------------------------
(* C4 *)

\* C4 as claimed: in a bulk fix an issue whose matched text is empty, or
\* whitespace-only and absent from the current text, counts as not found: it
\* changes neither the text, nor the applied count, nor the highlight lists.
C4_AsClaimed ==
    BulkFixDone =>
        \A k \in DOMAIN last.trace :
            LET e == last.trace[k]
                m == e.issue.affectedCode
            IN  (m = "" \/ (trim(m) = "" /\ ~includes(PrevText(k), m)))
                    => /\ e.text = PrevText(k)
                       /\ e.count = 0
                       /\ e.match = None

----------------------------------------------------------------------------
(* C5 *)

\* C5 as claimed: a successful single fix turns the text into the text before
\* the first occurrence of the located snippet, then the replacement text
\* verbatim, then the text after that occurrence.
C5_AsClaimed ==
    (SingleFixDone /\ last.trace[1].match # None) =>
        LET m == last.trace[1].match[1]
            r == last.trace[1].issue.replacementCode
            pos == Min({i \in 0..Len(last.before) : OccursAt(last.before, m, i)})
        IN  last.after = substring(last.before, 0, pos) \o r
                             \o substring(last.before, pos + Len(m), Len(last.before))

----------------------------------------------------------------------------
(* C6 *)

SingleFixStep == last'.n = last.n + 1 /\ last'.op = "handleApplyFix"

\* C6: a single fix looks the matched text up exactly and, only when that is
\* absent, trimmed; when neither is in the text the user is alerted, and the
\* editor text, the report, the preview and highlight state are unchanged and
\* no analysis is started.
C6_LookupOrNotFound ==
    [][SingleFixStep =>
        LET e == last'.trace[1]
            m == e.issue.affectedCode
        IN  IF includes(code, m)
            THEN e.match = Some(m) /\ last'.alert = ""
            ELSE IF includes(code, trim(m))
            THEN e.match = Some(trim(m)) /\ last'.alert = ""
            ELSE /\ e.match = None
                 /\ last'.alert = MsgSnippetNotFound
                 /\ last'.analyzed = None
                 /\ UNCHANGED <<code, report, previewIssue, highlightedText,
                                highlightColor, fixReview, pending, loading, error,
                                prStatus>>]_vars

C6_Witness ==
    /\ SingleFixDone
    /\ last.trace[1].match = None
    /\ last.alert = MsgSnippetNotFound
    /\ trim(last.trace[1].issue.affectedCode) # last.trace[1].issue.affectedCode
    /\ last.before # ""

----------------------------------------------------------------------------
(* C7 *)

\* C7: a bulk fix handles every issue of the report; each issue is looked up,
\* exactly and then trimmed, in the text as the issues before it left it; an
\* issue found there has all its occurrences replaced, an issue not found
\* there leaves the text as it is, and the issues after it are still handled.
C7_BestEffort ==
    BulkFixDone =>
        /\ Len(last.trace) = Len(last.issues)
        /\ \A x \in Issues :
               Cardinality({k \in DOMAIN last.trace : last.trace[k].issue = x})
                   = Cardinality({k \in DOMAIN last.issues : last.issues[k] = x})
        /\ last.after = PrevText(Len(last.trace) + 1)
        /\ \A k \in DOMAIN last.trace :
               LET e == last.trace[k]
                   m == e.issue.affectedCode
                   found == IF includes(PrevText(k), m) THEN m ELSE trim(m)
               IN  IF ~includes(PrevText(k), m) /\ ~includes(PrevText(k), trim(m))
                   THEN e.match = None /\ e.text = PrevText(k)
                   ELSE found # "" =>
                            /\ e.match = Some(found)
                            /\ AllReplaced(PrevText(k), found, e.issue.replacementCode, e.text)

C7_Witness ==
    /\ BulkFixDone
    /\ Len(last.trace) = 2
    /\ last.trace[1].match = None
    /\ last.trace[2].match # None
    /\ last.after # last.before

----------------------------------------------------------------------------
(* C8 *)

BulkFixStep == last'.n = last.n + 1 /\ last'.op = "handleFixAll"

NoIssueApplicable ==
    \A k \in DOMAIN ReportIssues :
        /\ ~includes(code, ReportIssues[k].affectedCode)
        /\ ~includes(code, trim(ReportIssues[k].affectedCode))

----------------------------------------------------------------------------
(* C9 *)

\* the steps of the last bulk fix that changed the text, in order
AppliedSteps == SelectSeq(last.trace, LAMBDA e : e.match # None)

\* C9: after a bulk fix the two highlight lists have one entry per applied
\* issue, the matched text in one and its replacement in the other; the
\* applied count is the sum over the applied issues of the occurrences
\* replaced, and it is positive exactly when the lists are non-empty.
C9_HighlightsAndCount ==
    BulkFixDone =>
        /\ Len(last.originalHighlights) = Len(AppliedSteps)
        /\ Len(last.modifiedHighlights) = Len(AppliedSteps)
        /\ \A i \in DOMAIN AppliedSteps :
               /\ last.originalHighlights[i] = AppliedSteps[i].match[1]
               /\ last.modifiedHighlights[i] = AppliedSteps[i].issue.replacementCode
        /\ last.appliedCount = SumSeq([i \in DOMAIN AppliedSteps |-> AppliedSteps[i].count])
        /\ \A k \in DOMAIN last.trace :
               LET e == last.trace[k]
               IN  /\ e.match # None => e.count >= 1
                   /\ (e.match # None /\ e.match[1] # "") =>
                          e.count = Len(NonOverlapping(PrevText(k), e.match[1], 0))
                   /\ e.match = None => e.text = PrevText(k)
        /\ last.appliedCount > 0 <=> last.originalHighlights # <<>>

C9_Witness ==
    /\ BulkFixDone
    /\ Len(AppliedSteps) = 2
    /\ last.appliedCount > 2

----------------------------------------------------------------------------
(* runSimulation on every text and profile within the bounds *)

AppIdle ==
    /\ code = ""
    /\ report = None
    /\ loading = FALSE
    /\ error = ""
    /\ previewIssue = None
    /\ prStatus = "idle"
    /\ fixReview = None
    /\ highlightedText = None
    /\ highlightColor = "red"
    /\ activeTab = "scanner"
    /\ pending = <<>>
    /\ track = NoTrack
    /\ last = NoFix

InitScan ==
    /\ AppIdle
    /\ OtherIdle
    /\ activeProfileId \in ScanProfiles
    /\ emuCode \in EmuTexts(activeProfileId)
    /\ simulationResult = None
    /\ isBooting = FALSE
    /\ bootTimers = <<>>
    /\ lastIndex = LastIndexInit
    /\ scanned = None

NextScan ==
    \/ handleStartSimulation
    \/ bootTimerFires
    \/ setActiveProfileId
    \/ applyPatches

SpecScan == InitScan /\ [][NextScan]_vars

\* runSimulation on profiles with string patterns and patterns without the g
\* flag
InitProbe ==
    /\ AppIdle
    /\ OtherIdle
    /\ activeProfileId \in ProbeProfiles
    /\ emuCode \in EmuTexts(activeProfileId)
    /\ simulationResult = None
    /\ isBooting = FALSE
    /\ bootTimers = <<>>
    /\ lastIndex = LastIndexInit
    /\ scanned = None

SpecProbe == InitProbe /\ [][NextScan]_vars

\* the scan whose result the component shows
ScanDone == simulationResult # None /\ scanned # None
ScannedText == scanned[1].code
ScannedProfile == Profiles[scanned[1].activeProfileId]
Breakages == simulationResult[1].breakages

RECURSIVE RxOccurrences(_, _, _)
\* The non-overlapping occurrences of a pattern in s from the offset from on,
\* left to right: the match at the least offset that has one, then the
\* occurrences behind its end
RxOccurrences(source, s, from) ==
    LET at == {i \in from..Len(s) : rxMatchAt(source, s, i) # None}
    IN  IF at = {} THEN <<>>
        ELSE LET m == rxMatchAt(source, s, Min(at))[1]
             IN  <<m>> \o RxOccurrences(source, s, m.index + Len(m.text))

FindingsOf(rule) == SelectSeq(Breakages, LAMBDA b : b.ruleId = rule.id)

\* C1: a scan emits, for each rule of the profile, exactly one finding per
\* non-overlapping left-to-right occurrence of the rule's matcher in the text
\* (all of them, not only the first); each finding carries the ruleId,
\* severity, message and migrationSuggestion of its rule and the matched
\* substring, and there are no other findings.
C1_OneFindingPerOccurrence ==
    ScanDone =>
        /\ \A k \in DOMAIN ScannedProfile.rules :
              LET rule == ScannedProfile.rules[k]
                  occ == RxOccurrences(rule.pattern.source, ScannedText, 0)
                  found == FindingsOf(rule)
              IN  /\ Len(found) = Len(occ)
                  /\ \A j \in DOMAIN found :
                        /\ found[j].match = occ[j].text
                        /\ found[j].severity = rule.severity
                        /\ found[j].message = rule.message
                        /\ found[j].suggestion = rule.migrationSuggestion
        /\ \A j \in DOMAIN Breakages :
              \E k \in DOMAIN ScannedProfile.rules :
                  Breakages[j].ruleId = ScannedProfile.rules[k].id

\* C1 witness: a scan in which one rule matched twice and another rule matched
C1_Witness ==
    /\ ScanDone
    /\ \E k1, k2 \in DOMAIN ScannedProfile.rules :
          /\ k1 # k2
          /\ Len(FindingsOf(ScannedProfile.rules[k1])) >= 2
          /\ Len(FindingsOf(ScannedProfile.rules[k2])) >= 1

CountSeverity(severity) == Len(SelectSeq(Breakages, LAMBDA b : b.severity = severity))

RawScore ==
    100 - 25 * CountSeverity("Critical") - 10 * CountSeverity("Warning")
        - 2 * CountSeverity("Info")

\* C10: the score of a scan is max(0, 100 - 25c - 10w - 2i), c, w and i being
\* the numbers of Critical, Warning and Info findings; it is an integer from 0
\* to 100.
C10_Score ==
    ScanDone =>
        /\ simulationResult[1].score = (IF RawScore > 0 THEN RawScore ELSE 0)
        /\ simulationResult[1].score \in 0..100

\* C10 witness: a scan with findings of all three severities whose deductions
\* exceed 100
C10_Witness ==
    /\ ScanDone
    /\ RawScore < 0
    /\ CountSeverity("Critical") > 0
    /\ CountSeverity("Warning") > 0
    /\ CountSeverity("Info") > 0

\* the texts a scan can be given before any patch was applied
FragmentTexts == UNION {EmuTexts(p) : p \in DOMAIN Profiles}

\* C11: whatever scans came before it, with the same pattern objects, a scan
\* of a text under a profile returns what a scan with pattern objects never
\* used before returns: the same findings in the same order, and the same
\* score, patch and log.
C11_Deterministic ==
    ScanDone =>
        simulationResult[1]
            = runSimulation(ScannedText, ScannedProfile,
                            LastIndexInit[scanned[1].activeProfileId]).result

\* C11 witness: a scan with findings of a text that the patch of an earlier
\* scan produced
C11_Witness ==
    /\ ScanDone
    /\ ScannedText \notin FragmentTexts
    /\ Breakages # <<>>

\* the rules of the scanned profile whose pattern is a RegExp object
RegExpRules == {k \in DOMAIN ScannedProfile.rules : ~isString(ScannedProfile.rules[k].pattern)}

\* C12: a rule whose matcher is a regular expression is evaluated with the
\* global flag forced on, whatever flags it declares: the scan of every text
\* returns, and it has one finding per non-overlapping occurrence of the
\* pattern, also for a pattern declared without the g flag.
C12_AsClaimed ==
    /\ ~scanRunning
    /\ ScanDone =>
          \A k \in RegExpRules :
              Len(FindingsOf(ScannedProfile.rules[k]))
                  = Len(RxOccurrences(ScannedProfile.rules[k].pattern.source, ScannedText, 0))

\* the place of the rule with this id in the rule list of the scanned profile
RuleIndex(id) == CHOOSE k \in DOMAIN ScannedProfile.rules : ScannedProfile.rules[k].id = id

\* the occurrences of the pattern of the rule number k in the scanned text
OccurrencesOfRule(k) ==
    RxOccurrences(regexOf(ScannedProfile.rules[k].pattern).source, ScannedText, 0)

\* C13: the findings are ordered by rule declaration first: a finding of a
\* later rule never precedes a finding of an earlier rule, wherever they are
\* in the text; the findings of one rule are in ascending match position.
C13_RuleThenPosition ==
    ScanDone =>
        /\ \A i, j \in DOMAIN Breakages :
              i < j => RuleIndex(Breakages[i].ruleId) <= RuleIndex(Breakages[j].ruleId)
        /\ \A k \in DOMAIN ScannedProfile.rules :
              LET occ == OccurrencesOfRule(k)
                  found == FindingsOf(ScannedProfile.rules[k])
              IN  /\ Len(found) = Len(occ)
                  /\ \A j \in DOMAIN found :
                        /\ found[j].match = occ[j].text
                        /\ found[j].line = Len(split(substring(ScannedText, 0, occ[j].index), "\n"))
                        /\ j > 1 => occ[j - 1].index < occ[j].index

\* C13 witness: a scan in which a later rule matched in front of the first
\* match of an earlier rule, and a rule matched twice
C13_Witness ==
    /\ ScanDone
    /\ \E k1, k2 \in DOMAIN ScannedProfile.rules :
          /\ k1 < k2
          /\ OccurrencesOfRule(k1) # <<>>
          /\ OccurrencesOfRule(k2) # <<>>
          /\ OccurrencesOfRule(k2)[1].index < OccurrencesOfRule(k1)[1].index
          /\ Len(FindingsOf(ScannedProfile.rules[k1])) >= 2

\* the number of newline characters of s in front of the offset index
NewlinesBefore(s, index) == Cardinality({i \in 0..(index - 1) : charAt(s, i) = "\n"})

\* C14: the line of a finding is 1-based: 1 plus the number of newline
\* characters of the text strictly in front of the start of the match.
C14_LineNumber ==
    ScanDone =>
        \A k \in DOMAIN ScannedProfile.rules :
            \A j \in DOMAIN FindingsOf(ScannedProfile.rules[k]) :
                j \in DOMAIN OccurrencesOfRule(k) =>
                    FindingsOf(ScannedProfile.rules[k])[j].line
                        = 1 + NewlinesBefore(ScannedText, OccurrencesOfRule(k)[j].index)

\* C14 witness: a scan with a match on the first line and a match that starts
\* right behind a newline
C14_Witness ==
    /\ ScanDone
    /\ \E k \in DOMAIN ScannedProfile.rules :
          \E j \in DOMAIN OccurrencesOfRule(k) :
              /\ OccurrencesOfRule(k)[j].index > 0
              /\ charAt(ScannedText, OccurrencesOfRule(k)[j].index - 1) = "\n"
              /\ j \in DOMAIN FindingsOf(ScannedProfile.rules[k])
              /\ FindingsOf(ScannedProfile.rules[k])[j].line = 2
    /\ \E j \in DOMAIN Breakages : Breakages[j].line = 1

\* a step in which a call of runSimulation returns
ScanStep == bootTimers # <<>> /\ bootTimers' = Tail(bootTimers)

\* C15: a scan has no effect on its inputs: when runSimulation returns, the
\* text it was given and the editor text are what they were, and the cursor
\* of the pattern object of every rule of every profile has the value it had
\* before the call; the patch is in the result only.
C15_InputsUnchanged ==
    [][ScanStep =>
          /\ lastIndex' = lastIndex
          /\ emuCode' = emuCode
          /\ scanned'[1].code = Head(bootTimers).code
          /\ activeProfileId' = activeProfileId]_vars

\* C15 witness: a scan that found matches and made a patch, with the editor
\* text still the scanned text
C15_Witness ==
    /\ ScanDone
    /\ Breakages # <<>>
    /\ simulationResult[1].patchedCode \notin {"", ScannedText}
    /\ emuCode = ScannedText
    /\ lastIndex = LastIndexInit

\* the list b in the order p
Shuffled(b, p) == [i \in DOMAIN b |-> b[p[i]]]

\* the orders a list of n findings is scored in: every permutation up to
\* MaxShuffle findings, every exchange of two findings beyond
Shuffles(n) ==
    IF n <= MaxShuffle THEN Permutations(1..n)
    ELSE {[k \in 1..n |-> IF k = i THEN j ELSE IF k = j THEN i ELSE k] : i, j \in 1..n}

\* C16: the score does not depend on the order of the findings: scoring any
\* reordering of the findings list of a scan gives the score of the scan.
C16_OrderIndependent ==
    ScanDone =>
        \A p \in Shuffles(Len(Breakages)) :
            Max(0, scoreOf(100, Shuffled(Breakages, p))) = simulationResult[1].score

\* C16 witness: a scan with at least three findings, of all three severities,
\* few enough to be scored in every order
C16_Witness ==
    /\ ScanDone
    /\ Len(Breakages) \in 3..MaxShuffle
    /\ CountSeverity("Critical") > 0
    /\ CountSeverity("Warning") > 0
    /\ CountSeverity("Info") > 0

\* no pattern of the scanned profile occurs in the scanned text
NothingOccurs == \A k \in DOMAIN ScannedProfile.rules : OccurrencesOfRule(k) = <<>>

\* C17: the scan of a text in which no matcher of the profile occurs has no
\* findings and the score 100, no patched text, and no [Error] or [Warn] line
\* in its log.
C17_NoMatchPurity ==
    (ScanDone /\ NothingOccurs) =>
        /\ Breakages = <<>>
        /\ simulationResult[1].score = 100
        /\ simulationResult[1].patchedCode = ""
        /\ \A i \in DOMAIN simulationResult[1].logs :
              /\ ~includes(simulationResult[1].logs[i], "[Error]")
              /\ ~includes(simulationResult[1].logs[i], "[Warn]")

\* C17 witness: a scan of a text that is not empty and has no occurrence of
\* any pattern of the profile
C17_Witness ==
    /\ ScanDone
    /\ NothingOccurs
    /\ ScannedText # ""
    /\ simulationResult[1].score = 100

\* the rules of the scanned profile whose pattern is a string
StringRules == {k \in DOMAIN ScannedProfile.rules : isString(ScannedProfile.rules[k].pattern)}

\* C18: a matcher given as a plain string is matched literally: the findings
\* of its rule are the places where the string occurs as a substring of the
\* text, one finding per non-overlapping occurrence, each with the string as
\* its match; ".", "(", "*" and "[" have no special meaning.
C18_AsClaimed ==
    ScanDone =>
        \A k \in StringRules :
            LET str == ScannedProfile.rules[k].pattern.string
                at == NonOverlapping(ScannedText, str, 0)
                found == FindingsOf(ScannedProfile.rules[k])
            IN  /\ Len(found) = Len(at)
                /\ \A j \in DOMAIN found :
                      /\ found[j].match = str
                      /\ j \in DOMAIN at =>
                            found[j].line = 1 + NewlinesBefore(ScannedText, at[j])

\* the rules of the scanned profile with an occurrence in the scanned text, in
\* declaration order
MatchedRules ==
    SelectSeq([k \in DOMAIN ScannedProfile.rules |-> k],
              LAMBDA k : OccurrencesOfRule(k) # <<>>)

Logs == simulationResult[1].logs

\* the last line of the log is the success line if and only if there is no
\* finding, and the line with the number of findings otherwise
TerminalLine ==
    Logs[Len(Logs)] =
        IF Breakages = <<>>
        THEN "[Success] Application mounted successfully in "
                 \o ScannedProfile.versionLabel \o "."
        ELSE "[System] Process terminated with " \o ToString(Len(Breakages)) \o " issues."

\* C19 as stated: one line per matched rule, in declaration order, that is
\* "[Error] " and the message of the rule if the rule is Critical and
\* "[Warn] " and the message otherwise, then one terminal line.
C19_AsClaimed ==
    ScanDone =>
        /\ Len(Logs) = Len(MatchedRules) + 2
        /\ \A i \in DOMAIN MatchedRules :
              Logs[i + 1] =
                  (IF ScannedProfile.rules[MatchedRules[i]].severity = "Critical"
                   THEN "[Error] " ELSE "[Warn] ")
                      \o ScannedProfile.rules[MatchedRules[i]].message
        /\ TerminalLine

\* C19: the log of a scan is the boot line, then one line per rule with at
\* least one match (not one per occurrence), in declaration order, that is
\* "[Error] Runtime Exception: " and the message of the rule if the rule is
\* Critical and "[Warn] Deprecation Notice: " and the message otherwise, then
\* one terminal line: the success line if and only if there is no finding,
\* otherwise the line with the number of findings.
C19_LogShape ==
    ScanDone =>
        /\ Len(Logs) = Len(MatchedRules) + 2
        /\ Logs[1] = "[System] Booting " \o ScannedProfile.name \o " "
                         \o ScannedProfile.versionLabel \o " Kernel..."
        /\ \A i \in DOMAIN MatchedRules :
              Logs[i + 1] =
                  (IF ScannedProfile.rules[MatchedRules[i]].severity = "Critical"
                   THEN "[Error] Runtime Exception: " ELSE "[Warn] Deprecation Notice: ")
                      \o ScannedProfile.rules[MatchedRules[i]].message
        /\ TerminalLine

\* C19 witness: a scan in which a Critical rule matched twice, a rule that is
\* not Critical matched and a rule did not match
C19_Witness ==
    /\ ScanDone
    /\ Len(MatchedRules) < Len(ScannedProfile.rules)
    /\ \E i, j \in DOMAIN MatchedRules :
          /\ ScannedProfile.rules[MatchedRules[i]].severity = "Critical"
          /\ Len(OccurrencesOfRule(MatchedRules[i])) >= 2
          /\ ScannedProfile.rules[MatchedRules[j]].severity # "Critical"

RECURSIVE Rewritten(_, _)
\* the text after the rewrites of the rules ks of the scanned profile, one
\* after the other; a rule without a rewrite leaves the text as it is
Rewritten(text, ks) ==
    IF ks = <<>> THEN text
    ELSE Rewritten(IF ScannedProfile.rules[Head(ks)].fixReplacer = None THEN text
                   ELSE rxReplaceFrom(text,
                                      ScannedProfile.rules[Head(ks)].fixReplacer[1].source,
                                      ScannedProfile.rules[Head(ks)].fixReplacer[1].template, 0),
                   Tail(ks))

\* the scanned text after the rewrites of the rules that matched
RewrittenText == Rewritten(ScannedText, MatchedRules)

\* C20 as stated: the rewritten text of the result equals the original text
\* whenever no rewrite changed the text.
C20_AsClaimed ==
    (ScanDone /\ RewrittenText = ScannedText) =>
        simulationResult[1].patchedCode = ScannedText

\* C20: the rewritten text of the result is the empty string whenever no
\* rewrite changed the text (no rule matched, the matched rules have no
\* rewrite, or the rewrites left the text as it was), and the text after the
\* rewrites of the matched rules otherwise.
C20_PatchOrEmpty ==
    ScanDone =>
        simulationResult[1].patchedCode
            = (IF RewrittenText = ScannedText THEN "" ELSE RewrittenText)

\* C20 witness: a scan in which a rule with a rewrite matched and the rewrite
\* left the text, which is not empty, as it was
C20_Witness ==
    /\ ScanDone
    /\ ScannedText # ""
    /\ \E i \in DOMAIN MatchedRules : ScannedProfile.rules[MatchedRules[i]].fixReplacer # None
    /\ RewrittenText = ScannedText
    /\ simulationResult[1].patchedCode = ""

----------------------------------------------------------------------------
(* geminiService.ts: analyzeCode with the backend tried first, and         *)
(* analyzeCodeClientSide, its fallback                                     *)

Returned(v) == [ok |-> TRUE, value |-> v]
Thrown(e) == [ok |-> FALSE, error |-> e]

\* new Date().toISOString() and Date.now(), as ticks of one clock
Clock == {1, 2}

\* `issue-${index}-${Date.now()}`
issueId(index, now) == "issue-" \o ToString(index) \o "-" \o ToString(now)

\* enrichReport(data, timestamp): data.issues.map throws a TypeError when the
\* parsed data has no issues array
enrichReport(data, timestamp, now) ==
    IF "issues" \in DOMAIN data
    THEN Returned(("timestamp" :> timestamp)
                  @@ ("issues" :> [k \in DOMAIN data.issues |->
                                      ("id" :> issueId(k - 1, now)) @@ data.issues[k]])
                  @@ data)
    ELSE Thrown([name |-> "TypeError",
                 message |-> "Cannot read properties of undefined (reading 'map')"])

\* bodies response.json() of the backend resolves with
BackendBodies ==
    {[summary |-> "s"],
     [summary |-> "s", issues |-> <<>>],
     [summary |-> "s", issues |-> <<[title |-> "t"]>>],
     [summary |-> "s", issues |-> <<[title |-> "t"], [title |-> "u"]>>]}

\* response.text of the Gemini call
ClientTexts == {"", "{", "{}", "{\"issues\":[]}", "{\"issues\":[{\"title\":\"t\"}]}"}

\* JSON.parse on the texts of ClientTexts
JSONparse(text) ==
    CASE text = "{}" -> Returned(<<>>)
      [] text = "{\"issues\":[]}" -> Returned([issues |-> <<>>])
      [] text = "{\"issues\":[{\"title\":\"t\"}]}" -> Returned([issues |-> <<[title |-> "t"]>>])
      [] OTHER -> Thrown([name |-> "SyntaxError", message |-> "Unexpected end of JSON input"])

\* errors ai.models.generateContent rejects with
ProviderErrors ==
    {[name |-> "ApiError", message |-> "quota", status |-> 429],
     [name |-> "TypeError", message |-> "fetch failed", status |-> 0]}

\* response.ok, read as if every response were OK
responseOk_always(status) == TRUE

\* response.ok
responseOk(status) == status \in 200..299

BackendStatuses == {200, 500}

\* "2. Fallback to Client-Side": the call of analyzeCodeClientSide, reached
\* from the catch block or from a response that is not OK
fallBack(c) == [c EXCEPT !.pc = "client", !.calls = Append(@, "client")]

\* the promise of analyzeCode settles
settle(c, r) ==
    [c EXCEPT !.pc = "done",
              !.outcomes = Append(@, IF r.ok THEN [kind |-> "report", value |-> r.value]
                                             ELSE [kind |-> "error", error |-> r.error])]

\* analyzeCode(code) up to the await of fetch
analyzeCode ==
    \E text \in {"a", "b"}, t \in Clock :
        /\ svc.pc = "idle"
        /\ svc' = [pc |-> "fetch", code |-> text, timestamp |-> t, timer |-> "armed",
                   calls |-> <<"backend">>, fetched |-> "pending", status |-> 0,
                   body |-> "none", data |-> None, failure |-> None,
                   outcomes |-> <<>>]
        /\ UNCHANGED <<appVars, emuVars, view, editor>>

\* fetch rejects (no connection): the catch block, then the fallback; the
\* timer is left armed
fetchRejects ==
    /\ svc.pc = "fetch"
    /\ svc' = fallBack([svc EXCEPT !.fetched = "rejected"])
    /\ UNCHANGED <<appVars, emuVars, view, editor>>

\* the 3000 ms timer runs controller.abort(); a fetch still awaited rejects
\* with an AbortError
abortTimerFires ==
    /\ svc.timer = "armed"
    /\ svc' = IF svc.pc = "fetch"
              THEN fallBack([svc EXCEPT !.timer = "fired", !.fetched = "aborted"])
              ELSE [svc EXCEPT !.timer = "fired"]
    /\ UNCHANGED <<appVars, emuVars, view, editor>>

\* fetch resolves with a response: clearTimeout, then the test of response.ok
fetchResolves ==
    \E status \in BackendStatuses :
        /\ svc.pc = "fetch"
        /\ LET c == [svc EXCEPT !.timer = "cleared", !.fetched = "response", !.status = status]
           IN  svc' = IF responseOk(status) THEN [c EXCEPT !.pc = "json"] ELSE fallBack(c)
        /\ UNCHANGED <<appVars, emuVars, view, editor>>

\* response.json() rejects: the body cannot be read or parsed
jsonRejects ==
    /\ svc.pc = "json"
    /\ svc' = fallBack([svc EXCEPT !.body = "unreadable"])
    /\ UNCHANGED <<appVars, emuVars, view, editor>>

\* response.json() resolves with data: return enrichReport(data, timestamp),
\* inside the try block
jsonResolves ==
    \E data \in BackendBodies, now \in Clock :
        /\ svc.pc = "json"
        /\ now >= svc.timestamp
        /\ LET c == [svc EXCEPT !.body = "parsed", !.data = Some(data)]
               r == enrichReport(data, svc.timestamp, now)
           IN  svc' = IF r.ok THEN settle(c, r) ELSE fallBack(c)
        /\ UNCHANGED <<appVars, emuVars, view, editor>>

\* generateContent rejects: analyzeCodeClientSide logs and rethrows the error
generateContentRejects ==
    \E e \in ProviderErrors :
        /\ svc.pc = "client"
        /\ svc' = settle(svc, Thrown(e))
        /\ UNCHANGED <<appVars, emuVars, view, editor>>

\* the rest of the try block of analyzeCodeClientSide on the response text
clientSideResult(text, timestamp, now) ==
    IF text = "" THEN Thrown([name |-> "Error", message |-> "No response from AI"])
    ELSE LET parsed == JSONparse(text)
         IN  IF parsed.ok THEN enrichReport(parsed.value, timestamp, now) ELSE parsed

\* generateContent resolves
generateContentResolves ==
    \E text \in ClientTexts, now \in Clock :
        /\ svc.pc = "client"
        /\ now >= svc.timestamp
        /\ svc' = settle(svc, clientSideResult(text, svc.timestamp, now))
        /\ UNCHANGED <<appVars, emuVars, view, editor>>

InitBackendFirst ==
    /\ AppIdle
    /\ EmuIdle
    /\ OtherIdle

NextBackendFirst ==
    \/ analyzeCode
    \/ fetchRejects
    \/ abortTimerFires
    \/ fetchResolves
    \/ jsonRejects
    \/ jsonResolves
    \/ generateContentRejects
    \/ generateContentResolves

SpecBackendFirst == InitBackendFirst /\ [][NextBackendFirst]_vars

----------------------------------------------------------------------------
(* C21: backend first, fallback exactly on an unusable backend answer *)

ClientCalled == \E k \in DOMAIN svc.calls : svc.calls[k] = "client"

\* the backend attempt ended in one of the four ways the claim lists
BackendFailed ==
    \/ svc.fetched \in {"rejected", "aborted"}
    \/ svc.fetched = "response" /\ svc.status \notin 200..299
    \/ svc.body = "unreadable"

\* the body of an OK response was parsed, but it has no issues list to enrich
BackendUnenrichable ==
    /\ svc.body = "parsed"
    /\ "issues" \notin DOMAIN svc.data[1]

\* C21 as claimed: analyzeCode tries the backend first and calls the
\* client-side analyzer exactly when the backend attempt failed by a
\* connection error, the timeout abort, a non-OK status or an unreadable
\* body; it never calls it after an OK response whose body was parsed.
C21_AsClaimed ==
    /\ ClientCalled <=> BackendFailed
    /\ svc.body = "parsed" => ~ClientCalled

\* C21: analyzeCode tries the backend first, and only once; it calls the
\* client-side analyzer, once and after the backend attempt, exactly when
\* that attempt ended in a connection error, the timeout abort, a non-OK
\* status, an unreadable body, or an OK body that was parsed but has no
\* issues list; a call that has ended has exactly one outcome (one report or
\* one error), a call that has not ended has none, and the report of a call
\* that never reached the client-side analyzer is the enriched backend body.
C21_FallbackExactly ==
    /\ svc.pc = "idle" <=> svc.calls = <<>>
    /\ svc.calls \in {<<>>, <<"backend">>, <<"backend", "client">>}
    /\ ClientCalled <=> (BackendFailed \/ BackendUnenrichable)
    /\ Len(svc.outcomes) = (IF svc.pc = "done" THEN 1 ELSE 0)
    /\ svc.pc = "done" /\ ~ClientCalled =>
           /\ svc.outcomes[1].kind = "report"
           /\ svc.fetched = "response" /\ svc.status \in 200..299
           /\ svc.outcomes[1].value.summary = svc.data[1].summary
           /\ Len(svc.outcomes[1].value.issues) = Len(svc.data[1].issues)

\* a call fell back to the client-side analyzer after an OK response whose
\* parsed body had no issues list, and ended with the client's report
C21_Witness ==
    /\ svc.pc = "done"
    /\ BackendUnenrichable
    /\ svc.status = 200
    /\ svc.calls = <<"backend", "client">>
    /\ svc.outcomes[1].kind = "report"

----------------------------------------------------------------------------
(* geminiService.ts: analyzeCode calling Gemini directly, with the         *)
(* classification of its catch block; App.tsx: the catch of handleAnalyze  *)

MsgUnexpected == "An unexpected error occurred during analysis."
MsgInvalidKey == "Invalid API Key. Please ensure your environment is configured correctly."
MsgRateLimit == "Rate limit exceeded. You are sending requests too quickly. Please wait a moment."
MsgOverloaded == "The AI service is currently overloaded. Please try again in a few minutes."
MsgSafety == "The model declined to generate a response due to safety policies. Please modify your input."
MsgNetwork == "Network error. Please check your internet connection."

\* the catch block, with the rate limit tested before the API key
userMessage_rateFirst(errorMsg, errorStatus) ==
    IF errorStatus = 429 \/ includes(errorMsg, "quota") \/ includes(errorMsg, "limit")
    THEN MsgRateLimit
    ELSE IF includes(errorMsg, "API_KEY") \/ errorStatus = 401 \/ errorStatus = 403
    THEN MsgInvalidKey
    ELSE IF errorStatus = 503 \/ includes(errorMsg, "overloaded")
    THEN MsgOverloaded
    ELSE IF includes(errorMsg, "safety") \/ includes(errorMsg, "blocked")
    THEN MsgSafety
    ELSE IF includes(errorMsg, "fetch failed")
    THEN MsgNetwork
    ELSE MsgUnexpected

\* the catch block: userMessage for error.message || "" and error.status || 0
userMessage(errorMsg, errorStatus) ==
    IF includes(errorMsg, "API_KEY") \/ errorStatus = 401 \/ errorStatus = 403
    THEN MsgInvalidKey
    ELSE IF errorStatus = 429 \/ includes(errorMsg, "quota") \/ includes(errorMsg, "limit")
    THEN MsgRateLimit
    ELSE IF errorStatus = 503 \/ includes(errorMsg, "overloaded")
    THEN MsgOverloaded
    ELSE IF includes(errorMsg, "safety") \/ includes(errorMsg, "blocked")
    THEN MsgSafety
    ELSE IF includes(errorMsg, "fetch failed")
    THEN MsgNetwork
    ELSE MsgUnexpected

\* throw new Error(userMessage)
classified(e) == Thrown([name |-> "Error", message |-> userMessage(e.message, e.status),
                         status |-> 0])

\* words the catch block looks for, and one it does not
ErrorWords == {"API_KEY", "quota", "limit", "overloaded", "safety", "blocked",
               "fetch failed", "boom"}

\* messages of the errors thrown inside the try block: none, one word, or two
ErrorMessages ==
    {""} \cup ErrorWords \cup {a \o " " \o b : a \in ErrorWords, b \in ErrorWords}

\* error.status || 0 of those errors
ErrorStatuses == {0, 401, 403, 429, 500, 503}

\* what generateContent rejects with
GeminiErrors == [name : {"ApiError"}, message : ErrorMessages, status : ErrorStatuses]

\* what getClient() throws: process is not defined, or the constructor of
\* GoogleGenAI refusing a missing key
GetClientErrors ==
    {[name |-> "ReferenceError", message |-> "process is not defined", status |-> 0],
     [name |-> "Error", message |-> "An API Key must be set when running in a browser",
      status |-> 0]}

\* analyzeCode(code): const ai = getClient(), before the try block
analyzeCodeDirect ==
    \E text \in {"a", "b"}, t \in Clock :
        /\ svc.pc = "idle"
        /\ \/ svc' = [NoCall EXCEPT !.pc = "generate", !.code = text, !.timestamp = t,
                                    !.calls = <<"client">>]
           \/ \E e \in GetClientErrors :
                  svc' = settle([NoCall EXCEPT !.code = text, !.timestamp = t,
                                               !.failure = Some(e)],
                                Thrown(e))
        /\ UNCHANGED <<appVars, emuVars, view, editor>>

\* generateContent rejects: the catch block
generateContentFails ==
    \E e \in GeminiErrors :
        /\ svc.pc = "generate"
        /\ svc' = settle([svc EXCEPT !.failure = Some(e)], classified(e))
        /\ UNCHANGED <<appVars, emuVars, view, editor>>

\* generateContent resolves: the rest of the try block
generateContentAnswers ==
    \E text \in ClientTexts :
        /\ svc.pc = "generate"
        /\ LET r == clientSideResult(text, svc.timestamp, svc.timestamp)
           IN  svc' = IF r.ok THEN settle(svc, r)
                      ELSE settle([svc EXCEPT !.failure = Some(r.error @@ [status |-> 0])],
                                  classified(r.error @@ [status |-> 0]))
        /\ UNCHANGED <<appVars, emuVars, view, editor>>

\* handleAnalyze: catch (err) { setError(err.message || "Failed to analyze code.") }
\* and finally
handleAnalyzeCatch ==
    /\ svc.pc = "done"
    /\ svc.outcomes[1].kind = "error"
    /\ error' = IF svc.outcomes[1].error.message = "" THEN MsgAnalyzeFailed
                ELSE svc.outcomes[1].error.message
    /\ loading' = FALSE
    /\ svc' = [svc EXCEPT !.pc = "handled"]
    /\ UNCHANGED <<view, editor>>
    /\ UNCHANGED <<code, report, previewIssue, prStatus, fixReview, highlightedText,
                   highlightColor, activeTab, pending, track, last>>
    /\ UNCHANGED emuVars

NextClassify ==
    \/ analyzeCodeDirect
    \/ generateContentFails
    \/ generateContentAnswers
    \/ handleAnalyzeCatch

SpecClassify == InitBackendFirst /\ [][NextClassify]_vars

----------------------------------------------------------------------------
(* C22: every analyzer failure surfaces as one categorised message *)

UserMessages == {MsgInvalidKey, MsgRateLimit, MsgOverloaded, MsgSafety, MsgNetwork,
                 MsgUnexpected}

IsAuth(e) == includes(e.message, "API_KEY") \/ e.status \in {401, 403}
IsRate(e) == e.status = 429 \/ includes(e.message, "quota") \/ includes(e.message, "limit")
IsOverloaded(e) == e.status = 503 \/ includes(e.message, "overloaded")
IsBlocked(e) == includes(e.message, "safety") \/ includes(e.message, "blocked")
IsNetwork(e) == includes(e.message, "fetch failed")

\* the category of a failure: auth before rate limit before overloaded before
\* blocked before network, otherwise the generic message
CategoryOf(e) ==
    CASE IsAuth(e) -> MsgInvalidKey
      [] ~IsAuth(e) /\ IsRate(e) -> MsgRateLimit
      [] ~IsAuth(e) /\ ~IsRate(e) /\ IsOverloaded(e) -> MsgOverloaded
      [] ~IsAuth(e) /\ ~IsRate(e) /\ ~IsOverloaded(e) /\ IsBlocked(e) -> MsgSafety
      [] ~IsAuth(e) /\ ~IsRate(e) /\ ~IsOverloaded(e) /\ ~IsBlocked(e) /\ IsNetwork(e)
           -> MsgNetwork
      [] OTHER -> MsgUnexpected

CallFailed == svc.pc \in {"done", "handled"} /\ svc.failure # None

\* the failed call rejected with the message of its failure's category, and
\* the catch of handleAnalyze shows that message
Categorised ==
    /\ svc.outcomes[1].kind = "error"
    /\ svc.outcomes[1].error.message = CategoryOf(svc.failure[1])
    /\ svc.outcomes[1].error.message \in UserMessages
    /\ svc.pc = "handled" => error = CategoryOf(svc.failure[1])

\* The failures raised inside the try block (a rejected request, an empty
\* answer, a text that does not parse, data without issues) are categorised.
ClassifiedInsideTry == CallFailed /\ svc.calls # <<>> => Categorised

\* C22 as claimed: every failure of the external analyzer is caught and
\* reaches the caller as exactly one message of the fixed set, chosen by the
\* precedence auth, rate limit, overloaded, blocked, network, generic; the
\* raw error of the provider never reaches the caller.
C22_AsClaimed == CallFailed => Categorised

----------------------------------------------------------------------------
(* App.tsx: the results section (Issues by Severity, the issue listings) *)

Severities == <<"Critical", "Warning", "Info">>

\* i.isPrediction, an optional field: undefined is falsy
isPrediction(i) == "isPrediction" \in DOMAIN i /\ i.isPrediction

\* issues as the analyzer returns them: a severity and, optionally, isPrediction
FindingKinds ==
    [severity : {"Critical", "Warning", "Info"}]
    \cup [severity : {"Critical", "Warning", "Info"}, isPrediction : BOOLEAN]

\* the reports of up to MaxIssues + 1 findings, with the ids of enrichReport
FindingReports ==
    {[issues |-> [k \in DOMAIN q |-> ("id" :> issueId(k - 1, 1)) @@ q[k]]] :
        q \in SeqsUpTo(FindingKinds, MaxIssues + 1)}

filter(issues, Test(_)) == SelectSeq(issues, Test)

\* report.issues.filter(i => i.severity === sev).length: every finding of the
\* severity counted, predictions too
severityCount_all(issues, sev) ==
    LET test(i) == i.severity = sev
    IN  Len(filter(issues, test))

\* report.issues.filter(i => i.severity === sev && !i.isPrediction).length
severityCount(issues, sev) ==
    LET test(i) == i.severity = sev /\ ~isPrediction(i)
    IN  Len(filter(issues, test))

\* report?.issues.filter(i => i.isPrediction).length || 0
predictionCount(r) == IF r = None THEN 0 ELSE Len(filter(r[1].issues, isPrediction))

\* the "Future API Predictions" and "Detected Deprecations" listings
listing(issues) ==
    LET standard(i) == ~isPrediction(i)
    IN  IF Len(issues) = 0 THEN [predictions |-> <<>>, standard |-> <<>>]
        ELSE [predictions |-> filter(issues, isPrediction),
              standard |-> filter(issues, standard)]

\* the results section rendered for the report r
renderResults(r) ==
    [counts |-> [k \in DOMAIN Severities |-> severityCount(r.issues, Severities[k])],
     predictionCount |-> predictionCount(Some(r)),
     listing |-> listing(r.issues)]

\* React renders the results section for the current report
render ==
    /\ report # None
    /\ view' = Some(renderResults(report[1]))
    /\ UNCHANGED <<appVars, emuVars, svc, editor>>

InitResults ==
    /\ code = ""
    /\ report \in {Some(r) : r \in FindingReports}
    /\ loading = FALSE
    /\ error = ""
    /\ previewIssue = None
    /\ prStatus = "idle"
    /\ fixReview = None
    /\ highlightedText = None
    /\ highlightColor = "red"
    /\ activeTab = "scanner"
    /\ pending = <<>>
    /\ track = NoTrack
    /\ last = NoFix
    /\ EmuIdle
    /\ OtherIdle

NextResults ==
    \/ render

SpecResults == InitResults /\ [][NextResults]_vars

----------------------------------------------------------------------------
(* C23: the severity breakdown against the findings list *)

Rendered == view # None

ShownIssues == report[1].issues

\* the ids listed in the two sections, in order
ListedIds ==
    LET l == view[1].listing.predictions \o view[1].listing.standard
    IN  [k \in DOMAIN l |-> l[k].id]

\* C23 as claimed: the displayed Critical, Warning and Info counts sum to the
\* number of findings of the report, and each finding is listed exactly once
\* across the listing sections.
C23_AsClaimed ==
    Rendered =>
        /\ view[1].counts[1] + view[1].counts[2] + view[1].counts[3] = Len(ShownIssues)
        /\ \A k \in DOMAIN ShownIssues :
               Cardinality({j \in DOMAIN ListedIds : ListedIds[j] = ShownIssues[k].id}) = 1

\* C23: the displayed Critical, Warning and Info counts are the numbers of
\* findings of each severity that are not predictions; together with the
\* displayed Future Predictions count they sum to the number of findings of
\* the report; and each finding is listed exactly once across the two listing
\* sections, the predictions in the first and the others in the second.
C23_BreakdownWithPredictions ==
    Rendered =>
        /\ \A s \in DOMAIN Severities :
               view[1].counts[s] =
                   Cardinality({k \in DOMAIN ShownIssues :
                                   /\ ShownIssues[k].severity = Severities[s]
                                   /\ ~isPrediction(ShownIssues[k])})
        /\ view[1].counts[1] + view[1].counts[2] + view[1].counts[3]
               + view[1].predictionCount = Len(ShownIssues)
        /\ Len(ListedIds) = Len(ShownIssues)
        /\ \A k \in DOMAIN ShownIssues :
               /\ Cardinality({j \in DOMAIN ListedIds : ListedIds[j] = ShownIssues[k].id}) = 1
               /\ isPrediction(ShownIssues[k]) <=>
                      \E j \in DOMAIN view[1].listing.predictions :
                          view[1].listing.predictions[j].id = ShownIssues[k].id

\* a report with a prediction and two other findings was rendered
C23_Witness ==
    /\ Rendered
    /\ Len(ShownIssues) = 3
    /\ view[1].predictionCount = 1
    /\ view[1].counts[1] = 1
    /\ view[1].counts[2] = 1

----------------------------------------------------------------------------
(* App.tsx: handleLoadRepo, handleLoadLocal, the tabs, "Override & Allow"; *)
(* the App under overlapping requests                                      *)

MsgScanFailed == "Failed to connect to backend server. Make sure main.py is running."

\* result.context of scanGitRepo and scanLocalPath
ScanContexts == {"ab"}

\* handleLoadRepo(isPrCheck) and handleLoadLocal(isPrCheck) up to the await
\* of the scan; the PR tab shows its two buttons while prStatus is 'idle'
\* and there is no report; the Buttons are given isLoading={loading} and are
\* taken to ignore clicks while loading
handleLoad(via) ==
    \E isPrCheck \in BOOLEAN :
        /\ isPrCheck <=> activeTab = "pr-interceptor"
        /\ isPrCheck => prStatus = "idle" /\ report = None
        /\ fixReview = None
        /\ ~loading
        /\ Len(pending) < MaxPending
        /\ loading' = TRUE
        /\ error' = ""
        /\ prStatus' = IF isPrCheck THEN "checking" ELSE prStatus
        /\ pending' = Append(pending, [text |-> "", isPrCheck |-> isPrCheck,
                                       via |-> via, stage |-> "scan"])
        /\ track' = [requested(track, "") EXCEPT !.allowed = IF isPrCheck THEN FALSE ELSE @]
        /\ UNCHANGED <<code, report, previewIssue, fixReview, highlightedText,
                       highlightColor, activeTab, last>>
        /\ UNCHANGED emuVars
        /\ UNCHANGED otherVars

handleLoadRepo == handleLoad("handleLoadRepo")

handleLoadLocal == handleLoad("handleLoadLocal")

\* the scan resolves: setCode(result.context), then the await of analyzeCode
ScanResolve ==
    \E k \in DOMAIN pending, context \in ScanContexts :
        /\ pending[k].stage = "scan"
        /\ code' = context
        /\ pending' = [pending EXCEPT ![k].stage = "analyze", ![k].text = context]
        /\ track' = IF isLatest(track, pending, k)
                    THEN [track EXCEPT !.latestText = context] ELSE track
        /\ UNCHANGED <<report, loading, error, previewIssue, prStatus, fixReview,
                       highlightedText, highlightColor, activeTab, last>>
        /\ UNCHANGED emuVars
        /\ UNCHANGED otherVars

\* the scan rejects: the catch block of handleLoadRepo / handleLoadLocal, and
\* finally
ScanReject ==
    \E k \in DOMAIN pending :
        /\ pending[k].stage = "scan"
        /\ error' = MsgScanFailed
        /\ prStatus' = "idle"
        /\ loading' = FALSE
        /\ pending' = RemoveAt(pending, k)
        /\ track' = settled(track, pending, k, "rejected")
        /\ UNCHANGED <<code, report, previewIssue, fixReview, highlightedText,
                       highlightColor, activeTab, last>>
        /\ UNCHANGED emuVars
        /\ UNCHANGED otherVars

\* the tab buttons of the header
setActiveTab ==
    \E tab \in {"scanner", "pr-interceptor"} :
        /\ tab # activeTab
        /\ activeTab' = tab
        /\ UNCHANGED <<code, report, loading, error, previewIssue, prStatus, fixReview,
                       highlightedText, highlightColor, pending, track, last>>
        /\ UNCHANGED emuVars
        /\ UNCHANGED otherVars

\* PrDashboard: "Override & Allow", shown while the status is 'blocked' and
\* there is a report
onAllow ==
    /\ activeTab = "pr-interceptor"
    /\ prStatus = "blocked"
    /\ report # None
    /\ prStatus' = "passed"
    /\ track' = [track EXCEPT !.allowed = TRUE]
    /\ UNCHANGED <<code, report, loading, error, previewIssue, fixReview,
                   highlightedText, highlightColor, activeTab, pending, last>>
    /\ UNCHANGED emuVars
    /\ UNCHANGED otherVars

\* the fixes the App is started with a report of
AppIssues == {[affectedCode |-> "b", replacementCode |-> "bb"],
              [affectedCode |-> "b", replacementCode |-> ""],
              [affectedCode |-> "ab", replacementCode |-> " "]}

\* the App after an analysis of its text, or before any
InitApp ==
    /\ code \in {"b", "ab"}
    /\ report \in {None} \cup {Some([issues |-> <<i>>]) : i \in AppIssues}
    /\ loading = FALSE
    /\ error = ""
    /\ previewIssue = None
    /\ activeTab = "scanner"
    /\ prStatus = "idle"
    /\ fixReview = None
    /\ highlightedText = None
    /\ highlightColor = "red"
    /\ pending = <<>>
    /\ track = NoTrack
    /\ last = NoFix
    /\ EmuIdle
    /\ OtherIdle

NextApp ==
    \/ handleAnalyze
    \/ AnalyzeResolve
    \/ AnalyzeReject
    \/ handleApplyFix
    \/ handleExitComparison
    \/ handleFixAll
    \/ handleLoadRepo
    \/ handleLoadLocal
    \/ ScanResolve
    \/ ScanReject
    \/ setActiveTab
    \/ onAllow

SpecApp == InitApp /\ [][NextApp]_vars

----------------------------------------------------------------------------
(* C24: the report of overlapping requests *)

AllSettled == pending = <<>>

\* C24 as claimed: once all overlapping analysis requests have completed and
\* the most recently started one has delivered its report, the stored report
\* is the result for the text of that request; the report of an earlier,
\* slower request for another text never replaces it.
C24_AsClaimed ==
    AllSettled /\ track.latest = "resolved" => track.reportText = Some(track.latestText)

----------------------------------------------------------------------------
(* C25: what the re-analysis after a fix analyzes *)

\* a single fix or a bulk fix was applied and stored a new text in the editor
FixApplied == last'.n = last.n + 1 /\ last'.alert = ""

\* C25 as claimed: after every successful single or bulk fix, the re-analysis
\* that is started analyzes exactly the text the fix produced and stored in
\* the editor, whatever that text is (the empty string included), and never
\* the text from before the fix.
C25_AsClaimed ==
    [][FixApplied /\ last'.analyzed # None =>
           /\ last'.analyzed = Some(code')
           /\ pending'[Len(pending')].text = code']_vars

----------------------------------------------------------------------------
(* C26: the PR status against the stored report *)

\* C26 as claimed: whenever prStatus is 'passed', "Override & Allow" has not
\* been used since the last check and no request is in flight, the stored
\* report has zero issues; in particular a bulk fix followed by its
\* re-analysis does not leave prStatus 'passed' with a report that still lists
\* issues.
C26_AsClaimed ==
    prStatus = "passed" /\ ~track.allowed /\ AllSettled =>
        report # None /\ Len(report[1].issues) = 0

----------------------------------------------------------------------------
(* C28: the loading flag against the requests in flight *)

\* C28 as claimed: loading is true whenever at least one request started by
\* handleAnalyze, handleLoadRepo or handleLoadLocal has not settled yet.
C28_AsClaimed == pending # <<>> => loading = TRUE

----------------------------------------------------------------------------
(* C27: the displayed result against the selected profile *)

ResultDisplayed == ~isBooting /\ simulationResult # None

\* C27 as claimed: whenever a simulation result is displayed, it was computed
\* for the profile that is shown as active; selecting another profile during
\* the boot delay or after the result is shown never leaves the result of
\* another profile on screen.
C27_AsClaimed == ResultDisplayed => scanned[1].activeProfileId = activeProfileId

----------------------------------------------------------------------------
(* App.tsx, the App that reviews a fix before applying it: handleAnalyze,  *)
(* handleApplyFix, handleConfirmFix, handleCancelFix, handleFixAll         *)

\* "Analyze Code": handleAnalyze(); the button is disabled for a blank text
\* and during a review.  This handleAnalyze sets loading, error and
\* previewIssue as the other one does; highlightedText and prStatus, which it
\* does not have, stay null and 'idle'.
reviewAnalyze ==
    /\ trim(code) # ""
    /\ fixReview = None
    /\ ~loading
    /\ Len(pending) < MaxPending
    /\ Commit(handleAnalyzeStart(Batch, None, FALSE))
    /\ UNCHANGED <<code, report, fixReview, activeTab, last>>
    /\ UNCHANGED emuVars
    /\ UNCHANGED otherVars

\* handleApplyFix(issue): propose the fix in a review; a snippet that is not
\* in the text gives an alert and changes nothing
reviewApplyFix ==
    \E i \in DOMAIN ReportIssues :
        LET issue == ReportIssues[i]
        IN  /\ includes(code, issue.affectedCode)
            /\ fixReview' = Some([original |-> code,
                                  modified |-> replace(code, issue.affectedCode,
                                                       issue.replacementCode),
                                  originalHighlights |-> <<issue.affectedCode>>,
                                  modifiedHighlights |-> <<issue.replacementCode>>,
                                  isBulkFix |-> FALSE])
            /\ fixReview' # fixReview
            /\ UNCHANGED <<code, report, loading, error, previewIssue, prStatus,
                           highlightedText, highlightColor, activeTab, pending, track, last>>
            /\ UNCHANGED emuVars
            /\ UNCHANGED otherVars

\* one step of the forEach of this handleFixAll: the first occurrence only
reviewFixAllIssue(acc, issue) ==
    IF includes(acc.updatedCode, issue.affectedCode)
    THEN [updatedCode |-> replace(acc.updatedCode, issue.affectedCode, issue.replacementCode),
          originalHighlights |-> Append(acc.originalHighlights, issue.affectedCode),
          modifiedHighlights |-> Append(acc.modifiedHighlights, issue.replacementCode),
          appliedCount |-> acc.appliedCount + 1]
    ELSE acc

RECURSIVE reviewFixAllLoop(_, _)
reviewFixAllLoop(acc, issues) ==
    IF issues = <<>> THEN acc
    ELSE reviewFixAllLoop(reviewFixAllIssue(acc, Head(issues)), Tail(issues))

\* handleFixAll(): propose all the fixes in a review; with no fix applied it
\* gives an alert and changes nothing
reviewFixAll ==
    /\ report # None
    /\ Len(report[1].issues) > 0
    /\ \E r \in {reviewFixAllLoop([updatedCode |-> code, originalHighlights |-> <<>>,
                                   modifiedHighlights |-> <<>>, appliedCount |-> 0],
                                  sortedIssues(report[1].issues))} :
           /\ r.appliedCount > 0
           /\ fixReview' = Some([original |-> code,
                                 modified |-> r.updatedCode,
                                 originalHighlights |-> r.originalHighlights,
                                 modifiedHighlights |-> r.modifiedHighlights,
                                 isBulkFix |-> TRUE])
    /\ fixReview' # fixReview
    /\ UNCHANGED <<code, report, loading, error, previewIssue, prStatus,
                   highlightedText, highlightColor, activeTab, pending, track, last>>
    /\ UNCHANGED emuVars
    /\ UNCHANGED otherVars

\* texts typed into the right-hand editor of the review
ReviewEdits == {"", " ", "a"}

\* onChange of the review editor: setFixReview({...fixReview, modified: val})
reviewEdit ==
    \E val \in ReviewEdits :
        /\ fixReview # None
        /\ val # fixReview[1].modified
        /\ fixReview' = Some([fixReview[1] EXCEPT !.modified = val])
        /\ UNCHANGED <<code, report, loading, error, previewIssue, prStatus,
                       highlightedText, highlightColor, activeTab, pending, track, last>>
        /\ UNCHANGED emuVars
        /\ UNCHANGED otherVars

\* handleConfirmFix(): setCode, setFixReview(null), setPreviewIssue(null),
\* then handleAnalyze(newCode)
handleConfirmFix ==
    /\ fixReview # None
    /\ last.n < MaxFixes
    /\ Len(pending) < MaxPending
    /\ LET newCode == fixReview[1].modified
           b == handleAnalyzeStart([Batch EXCEPT !.previewIssue = None], Some(newCode), FALSE)
       IN  /\ code' = newCode
           /\ fixReview' = None
           /\ Commit(b)
           /\ last' = [NoFix EXCEPT !.n = last.n + 1, !.op = "handleConfirmFix",
                                    !.before = code, !.after = newCode,
                                    !.analyzed = b.analyzed]
    /\ UNCHANGED <<report, activeTab>>
    /\ UNCHANGED emuVars
    /\ UNCHANGED otherVars

\* handleCancelFix(): setFixReview(null)
handleCancelFix ==
    /\ fixReview # None
    /\ fixReview' = None
    /\ last' = [NoFix EXCEPT !.n = last.n, !.op = "handleCancelFix",
                             !.before = code, !.after = code]
    /\ UNCHANGED <<code, report, loading, error, previewIssue, prStatus,
                   highlightedText, highlightColor, activeTab, pending, track>>
    /\ UNCHANGED emuVars
    /\ UNCHANGED otherVars

NextReview ==
    \/ reviewAnalyze
    \/ AnalyzeResolve
    \/ AnalyzeReject
    \/ reviewApplyFix
    \/ reviewFixAll
    \/ reviewEdit
    \/ handleConfirmFix
    \/ handleCancelFix

SpecReview == InitApp /\ [][NextReview]_vars

----------------------------------------------------------------------------
(* C29: review before apply *)

ConfirmStep == last'.n = last.n + 1 /\ last'.op = "handleConfirmFix"

\* C29 as claimed: proposing a fix and everything up to Confirm leaves code
\* and report unchanged; Cancel closes the review with code and report as
\* they were; Confirm sets code to the modified text of the review, closes the
\* review and starts a re-analysis of exactly that text; and the Analyze
\* button starts no analysis while a review is open.
C29_AsClaimed ==
    [][/\ fixReview' # None => code' = code /\ report' = report
       /\ fixReview # None /\ fixReview' = None /\ ~ConfirmStep =>
              code' = code /\ report' = report
       /\ ConfirmStep =>
              /\ code' = fixReview[1].modified
              /\ fixReview' = None
              /\ Len(pending') = Len(pending) + 1
              /\ pending'[Len(pending')].text = code'
       /\ fixReview # None /\ Len(pending') > Len(pending) => ConfirmStep]_vars

----------------------------------------------------------------------------
(* CodeEditor.tsx: renderHighlights *)

MaxValueLen == 3
MaxHighlights == 2

EditorChars == {"a", "b"}
EditorValues == StringsUpTo(EditorChars, MaxValueLen)
HighlightStrings == StringsUpTo(EditorChars, MaxHighlights)
HighlightLists == SeqsUpTo(HighlightStrings, MaxHighlights)

highlightClass(color) ==
    IF color = "red" THEN "bg-red-500/30 text-transparent animate-pulse"
    ELSE "bg-green-500/30 text-transparent animate-pulse"

RECURSIVE setOf(_, _)
\* [...new Set(hs)]: the first occurrence of each string, in order
setOf(hs, seen) ==
    IF hs = <<>> THEN <<>>
    ELSE IF Head(hs) \in seen THEN setOf(Tail(hs), seen)
    ELSE <<Head(hs)>> \o setOf(Tail(hs), seen \cup {Head(hs)})

RECURSIVE searchFrom(_, _, _)
\* the while loop: every occurrence of h in value from pos on, overlapping
\* ones included
searchFrom(value, h, pos) ==
    IF pos >= Len(value) THEN <<>>
    ELSE LET index == indexOf(value, h, pos)
         IN  IF index = -1 THEN <<>>
             ELSE <<[start |-> index, end |-> index + Len(h)]>>
                      \o searchFrom(value, h, index + 1)

RECURSIVE findRanges(_, _)
\* the forEach over the distinct highlights; an empty one is skipped
findRanges(value, hs) ==
    IF hs = <<>> THEN <<>>
    ELSE (IF Head(hs) = "" THEN <<>> ELSE searchFrom(value, Head(hs), 0))
             \o findRanges(value, Tail(hs))

RECURSIVE insertByStart(_, _)
\* x after every range that does not start later (the sort is stable)
insertByStart(x, sorted) ==
    IF sorted = <<>> THEN <<x>>
    ELSE IF Head(sorted).start - x.start > 0 THEN <<x>> \o sorted
    ELSE <<Head(sorted)>> \o insertByStart(x, Tail(sorted))

RECURSIVE sortByStart(_)
\* ranges.sort((a, b) => a.start - b.start)
sortByStart(ranges) ==
    IF ranges = <<>> THEN <<>>
    ELSE LET n == Len(ranges)
         IN  insertByStart(ranges[n], sortByStart(SubSeq(ranges, 1, n - 1)))

mergedEnd_last(prevEnd, rangeEnd) == rangeEnd
\* prev.end = Math.max(prev.end, range.end)
mergedEnd(prevEnd, rangeEnd) == Max(prevEnd, rangeEnd)

RECURSIVE mergeRanges(_, _)
\* the forEach that merges overlapping ranges into mergedRanges
mergeRanges(mergedRanges, ranges) ==
    IF ranges = <<>> THEN mergedRanges
    ELSE LET range == Head(ranges)
             n == Len(mergedRanges)
         IN  IF n = 0 THEN mergeRanges(<<range>>, Tail(ranges))
             ELSE IF range.start < mergedRanges[n].end
             THEN mergeRanges([mergedRanges EXCEPT ![n].end = mergedEnd(@, range.end)],
                              Tail(ranges))
             ELSE mergeRanges(Append(mergedRanges, range), Tail(ranges))

RECURSIVE emit(_, _, _, _)
\* the forEach that emits the text before each range and its span, then the
\* remaining text
emit(value, mergedRanges, lastIdx, class) ==
    IF mergedRanges = <<>>
    THEN IF lastIdx < Len(value)
         THEN <<[kind |-> "text", class |-> "", text |-> substring(value, lastIdx, Len(value))]>>
         ELSE <<>>
    ELSE LET range == Head(mergedRanges)
         IN  (IF range.start > lastIdx
              THEN <<[kind |-> "text", class |-> "",
                      text |-> substring(value, lastIdx, range.start)]>>
              ELSE <<>>)
             \o <<[kind |-> "span", class |-> class,
                   text |-> substring(value, range.start, range.end)]>>
             \o emit(value, Tail(mergedRanges), range.end, class)

\* renderHighlights(): the ranges found, the merged ranges and the elements
\* returned (the value itself when there is nothing to highlight)
renderHighlights(value, highlights, color) ==
    IF Len(highlights) = 0 \/ value = ""
    THEN [ranges |-> <<>>, mergedRanges |-> <<>>,
          elements |-> <<[kind |-> "text", class |-> "", text |-> value]>>]
    ELSE LET ranges == sortByStart(findRanges(value, setOf(highlights, {})))
             mergedRanges == mergeRanges(<<>>, ranges)
         IN  [ranges |-> ranges, mergedRanges |-> mergedRanges,
              elements |-> emit(value, mergedRanges, 0, highlightClass(color))]

\* React renders the backdrop of the editor
renderBackdrop ==
    /\ ~editor.rendered
    /\ \E r \in {renderHighlights(editor.value, editor.highlights, editor.highlightColor)} :
           editor' = [editor EXCEPT !.ranges = r.ranges, !.mergedRanges = r.mergedRanges,
                                    !.elements = r.elements, !.rendered = TRUE]
    /\ UNCHANGED <<appVars, emuVars, svc, view>>

InitEditor ==
    /\ AppIdle
    /\ EmuIdle
    /\ svc = NoCall
    /\ view = None
    /\ \E value \in EditorValues, highlights \in HighlightLists,
          color \in {"red", "green"} :
           editor = [NoEditor EXCEPT !.value = value, !.highlights = highlights,
                                     !.highlightColor = color]

NextEditor ==
    \/ renderBackdrop

SpecEditor == InitEditor /\ [][NextEditor]_vars

----------------------------------------------------------------------------
(* C30: renderHighlights preserves the text *)

RangeSet(rs) == {rs[i] : i \in DOMAIN rs}

Covered(rs, from, to) == \E r \in RangeSet(rs) : r.start <= from /\ to <= r.end

\* C30: for every value and every list of highlights, the merged ranges are
\* pairwise disjoint, sorted by start and within [0, len(value)], every
\* occurrence (overlapping ones included) of every non-empty highlight is
\* covered by a merged range, and the emitted segments, one after the other,
\* are exactly the value.
C30_RenderHighlightsPreservesText ==
    editor.rendered =>
        LET m == editor.mergedRanges
            value == editor.value
        IN  /\ \A i \in DOMAIN m : 0 <= m[i].start /\ m[i].start <= m[i].end
                                   /\ m[i].end <= Len(value)
            /\ \A i, j \in DOMAIN m : i < j => m[i].end <= m[j].start
            /\ \A k \in DOMAIN editor.highlights :
                   LET h == editor.highlights[k]
                   IN  h # "" =>
                           \A at \in 0..(Len(value) - Len(h)) :
                               OccursAt(value, h, at) => Covered(m, at, at + Len(h))
            /\ Concat([i \in DOMAIN editor.elements |-> editor.elements[i].text]) = value

\* overlapping occurrences were merged, and two highlighted ranges remain
C30_Witness ==
    /\ editor.rendered
    /\ Len(editor.ranges) > Len(editor.mergedRanges)
    /\ Len(editor.mergedRanges) >= 2
    /\ \E i \in DOMAIN editor.ranges :
           \E j \in DOMAIN editor.mergedRanges :
               /\ editor.mergedRanges[j].start = editor.ranges[i].start
               /\ editor.mergedRanges[j].end > editor.ranges[i].end

====
